---- MODULE Spec2Model ----
(***************************************************************************)
(* SOR (SQLite on REST): the worker's Db Durable Object (one SQLite        *)
(* database per name), the registry database _sor_registry with its        *)
(* catalog table dbs, and the fetch handler's routes.                      *)
(*                                                                         *)
(* A Durable Object runs one method call at a time to completion (no       *)
(* method of Db awaits), so a method is a critical section of its handle;  *)
(* the fetch handler runs concurrently for several requests and yields at  *)
(* each await of a Durable Object call.                                    *)
(***************************************************************************)
EXTENDS Integers, Sequences, FiniteSets, TLC

VARIABLES
    store,      \* store[h]: the SQLite storage of the Durable Object named h
    txn,        \* txn[h]: the open transactionSync of h (NoTxn when none)
    reqs,       \* reqs[r]: the fetch invocation in slot r
    applied,    \* history: applied[h][n] = how often migrate(n) returned ok:true on h
    sawOpenTxn, \* history: some Db method ran on a handle while another call's transaction was open
    env,        \* env: the worker's bindings (SOR_API_KEY)
    inbox,      \* inbox[r]: the request as it arrived for slot r (header, path segment, body)
    now,        \* the wall clock the engine reads, in whole seconds
    cli         \* the command line client: its config file and what the last command did

vars == <<store, txn, reqs, applied, sawOpenTxn, env, inbox, now, cli>>

----------------------------------------------------------------------------
(* Names *)

REGISTRY_DB == "_sor_registry"

MIGRATIONS_TABLE == "_sor_migrations"

DBS_TABLE == "dbs"

\* The user table the modelled SQL texts work on.
USER_TABLE == "t"

\* Two more user tables: one whose name is not a bare identifier and one
\* whose name begins with sqlite.
SPACED_TABLE == "my table"

SQLITE2_TABLE == "sqlite2"

TableNames == {USER_TABLE, SPACED_TABLE, SQLITE2_TABLE, MIGRATIONS_TABLE, DBS_TABLE}

\* The Durable Objects whose storage the model follows: idFromName(name)
\* for the names the requests carry.
Handles == {"a", "b", "a b", REGISTRY_DB}

Null == "NULL"

\* CURRENT_TIMESTAMP: the clock at the resolution of one second, so two
\* statements within the same second read the same value.
CurrentTimestamp == now

----------------------------------------------------------------------------
(* The SQLite engine behind ctx.storage.sql.exec, for the statements used. *)

\* A table: its columns, its PRIMARY KEY column, its rows, and the rows in
\* rowid order (ord). A new row gets a rowid above every rowid in the table,
\* so ord is the order of insertion of the rows that are left.
NoTable == [exists |-> FALSE, cols |-> {}, pk |-> "none", rows |-> {}, ord |-> <<>>]

EmptyStorage == [tb \in TableNames |-> NoTable]

Stmt(op, tbl, arg) == [op |-> op, tbl |-> tbl, arg |-> arg]

\* A column list of CREATE TABLE: the columns and the PRIMARY KEY column.
Ddl(cols, pk) == [cols |-> cols, pk |-> pk]

ColumnDefault(c) ==
    IF c \in {"applied_at", "created_at"} THEN CurrentTimestamp ELSE Null

\* The stored row of INSERT INTO tbl (DOMAIN given) VALUES (given).
FullRow(tb, given) ==
    [c \in tb.cols |-> IF c \in DOMAIN given THEN given[c] ELSE ColumnDefault(c)]

\* (faulty variant) the comparison ignores case, as under COLLATE NOCASE.
NameEqualsIgnoringCase(stored, given) ==
    LET lower(x) == IF x = "A" THEN "a" ELSE x IN lower(stored) = lower(given)

\* name = ? on a TEXT column (BINARY collation): equal byte for byte.
NameEquals(stored, given) == stored = given

\* (faulty variant) the rows come out in descending rowid order, as under
\* ORDER BY ... DESC.
OrderByDescending(ord, col) == [i \in 1..Len(ord) |-> ord[Len(ord) + 1 - i]]

\* ORDER BY col over the rows in rowid order: ascending by the column, rows
\* with equal values staying in rowid order (the engine scans the table by
\* rowid and sorts the scan by the key alone).
RECURSIVE OrderBy(_, _)
OrderBy(ord, col) ==
    IF ord = <<>> THEN <<>>
    ELSE LET last == ord[Len(ord)]
             sorted == OrderBy(SubSeq(ord, 1, Len(ord) - 1), col)
             k == Cardinality({i \in 1..Len(sorted) : sorted[i][col] <= last[col]})
         IN  SubSeq(sorted, 1, k) \o <<last>> \o SubSeq(sorted, k + 1, Len(sorted))

\* (faulty variant) the array is built back to front.
IndexedBackwards(seq) == {[pos |-> Len(seq) + 1 - i, row |-> seq[i]] : i \in 1..Len(seq)}

\* A result array as the set of its elements, each with its index.
Indexed(seq) == {[pos |-> i, row |-> seq[i]] : i \in 1..Len(seq)}

Ok(s, rows) == [ok |-> TRUE, st |-> s, error |-> "", rows |-> rows]

Fail(s, msg) == [ok |-> FALSE, st |-> s, error |-> msg, rows |-> {}]

\* One statement on storage s: the storage after it, or the engine's error
\* with the storage untouched.
ExecStmt(stmt, s) ==
    LET tb == s[stmt.tbl] IN
    CASE stmt.op = "syntaxError" -> Fail(s, "syntax error")
      [] stmt.op = "create" ->
            IF tb.exists THEN Fail(s, "table already exists")
            ELSE Ok([s EXCEPT ![stmt.tbl] =
                        [exists |-> TRUE, cols |-> stmt.arg.cols,
                         pk |-> stmt.arg.pk, rows |-> {}, ord |-> <<>>]], {})
      [] stmt.op = "createIfNotExists" ->
            IF tb.exists THEN Ok(s, {})
            ELSE Ok([s EXCEPT ![stmt.tbl] =
                        [exists |-> TRUE, cols |-> stmt.arg.cols,
                         pk |-> stmt.arg.pk, rows |-> {}, ord |-> <<>>]], {})
      [] stmt.op = "drop" ->
            IF ~tb.exists THEN Fail(s, "no such table")
            ELSE Ok([s EXCEPT ![stmt.tbl] = NoTable], {})
      [] stmt.op = "insert" ->
            IF ~tb.exists THEN Fail(s, "no such table")
            ELSE IF ~(DOMAIN stmt.arg \subseteq tb.cols) THEN Fail(s, "no such column")
            ELSE IF /\ tb.pk \in DOMAIN stmt.arg
                    /\ \E row \in tb.rows : row[tb.pk] = stmt.arg[tb.pk]
                 THEN Fail(s, "UNIQUE constraint failed")
            ELSE Ok([s EXCEPT ![stmt.tbl].rows = @ \cup {FullRow(tb, stmt.arg)},
                              ![stmt.tbl].ord = Append(@, FullRow(tb, stmt.arg))], {})
      [] stmt.op = "deleteWhereName" ->
            IF ~tb.exists THEN Fail(s, "no such table")
            ELSE IF "name" \notin tb.cols THEN Fail(s, "no such column")
            ELSE Ok([s EXCEPT ![stmt.tbl].rows =
                        {row \in @ : ~NameEquals(row["name"], stmt.arg)},
                              ![stmt.tbl].ord =
                        SelectSeq(@, LAMBDA row : ~NameEquals(row["name"], stmt.arg))], {})
      [] stmt.op = "deleteAll" ->
            IF ~tb.exists THEN Fail(s, "no such table")
            ELSE Ok([s EXCEPT ![stmt.tbl].rows = {}, ![stmt.tbl].ord = <<>>], {})
      [] stmt.op = "selectWhereName" ->
            \* SELECT <arg.cols> FROM tbl WHERE name = <arg.name>
            IF ~tb.exists THEN Fail(s, "no such table")
            ELSE IF ~((stmt.arg.cols \cup {"name"}) \subseteq tb.cols)
                 THEN Fail(s, "no such column")
            ELSE Ok(s, {row \in tb.rows : NameEquals(row["name"], stmt.arg.name)})
      [] stmt.op = "selectOrderBy" ->
            \* SELECT <arg.cols> FROM tbl ORDER BY <arg.by>
            IF ~tb.exists THEN Fail(s, "no such table")
            ELSE IF ~((stmt.arg.cols \cup {stmt.arg.by}) \subseteq tb.cols)
                 THEN Fail(s, "no such column")
            ELSE LET sorted == OrderBy(tb.ord, stmt.arg.by)
                 IN  Ok(s, Indexed([i \in 1..Len(sorted) |->
                                       [c \in stmt.arg.cols |-> sorted[i][c]]]))
      [] stmt.op = "select" ->
            \* SELECT <arg> FROM tbl
            IF ~tb.exists THEN Fail(s, "no such table")
            ELSE IF ~(stmt.arg \subseteq tb.cols) THEN Fail(s, "no such column")
            ELSE Ok(s, tb.rows)

\* exec of a text of several statements: they run in order and the first
\* failure throws, leaving the effects of the statements before it.
RECURSIVE ExecAll(_, _)
ExecAll(stmts, s) ==
    IF stmts = <<>> THEN Ok(s, {})
    ELSE LET r == ExecStmt(Head(stmts), s) IN
         IF ~r.ok \/ Len(stmts) = 1 THEN r
         ELSE ExecAll(Tail(stmts), r.st)

----------------------------------------------------------------------------
(* The SQL texts that occur: the ones the worker issues and a menu of texts  *)
(* callers send to POST /db/:name/sql and POST /db/:name/migrate.            *)

CREATE_T == "CREATE TABLE t (v TEXT PRIMARY KEY)"

CREATE_T_IF_NOT_EXISTS == "CREATE TABLE IF NOT EXISTS t (v TEXT PRIMARY KEY)"

INSERT_T == "INSERT INTO t (v) VALUES ('x')"

\* Three statements, the last of which violates the primary key.
CREATE_T_THEN_FAIL ==
    "CREATE TABLE t (v TEXT PRIMARY KEY); INSERT INTO t (v) VALUES ('x'); INSERT INTO t (v) VALUES ('x')"

SELECT_T == "SELECT v FROM t"

INSERT_T_BOUND == "INSERT INTO t (v) VALUES (?)"

\* A parameter value that carries SQL syntax.
INJECTION == "x'); DROP TABLE t;--"

BAD_SQL == "SELEC"

CREATE_SPACED == "CREATE TABLE \"my table\" (v TEXT PRIMARY KEY)"

CREATE_SQLITE2 == "CREATE TABLE sqlite2 (v TEXT PRIMARY KEY)"

DELETE_LEDGER == "DELETE FROM _sor_migrations"

FORGE_LEDGER == "INSERT INTO _sor_migrations (name, sql) VALUES ('m1', 'forged')"

DROP_DBS == "DROP TABLE dbs"

CREATE_DBS_NAME_ONLY == "CREATE TABLE dbs (name TEXT PRIMARY KEY)"

INSERT_DBS_RESERVED == "INSERT INTO dbs (name) VALUES ('_sor_x')"

\* The ledger table replaced by one without the columns migrate() reads.
RESHAPE_LEDGER ==
    "DROP TABLE _sor_migrations; CREATE TABLE _sor_migrations (id TEXT PRIMARY KEY)"

MigrationsDdl == Ddl({"name", "sql", "applied_at"}, "name")

DbsDdl == Ddl({"name", "description", "created_at"}, "name")

SYSTEM_MIGRATIONS ==
    << [name |-> "001_create_dbs_table",
        sql  |-> "CREATE TABLE IF NOT EXISTS dbs (name TEXT PRIMARY KEY, description TEXT, created_at TEXT DEFAULT CURRENT_TIMESTAMP)"] >>

\* A later version of the list, made the way README.md tells to add a system
\* migration: entries appended to the existing ones. 002 seeds a catalog row
\* and 003 adds a table to the registry.
SEED_DBS == "INSERT INTO dbs (name) VALUES ('a')"

LATER_SYSTEM_MIGRATIONS ==
    SYSTEM_MIGRATIONS \o
    << [name |-> "002_seed_dbs", sql |-> SEED_DBS],
       [name |-> "003_create_t", sql |-> CREATE_T_IF_NOT_EXISTS] >>

\* What the engine makes of a text: its statements, in order.
SqlBody(text) ==
    CASE text = CREATE_T -> << Stmt("create", USER_TABLE, Ddl({"v"}, "v")) >>
      [] text = CREATE_T_IF_NOT_EXISTS ->
            << Stmt("createIfNotExists", USER_TABLE, Ddl({"v"}, "v")) >>
      [] text = INSERT_T -> << Stmt("insert", USER_TABLE, [v |-> "x"]) >>
      [] text = CREATE_T_THEN_FAIL ->
            << Stmt("create", USER_TABLE, Ddl({"v"}, "v")),
               Stmt("insert", USER_TABLE, [v |-> "x"]),
               Stmt("insert", USER_TABLE, [v |-> "x"]) >>
      [] text = SELECT_T -> << Stmt("select", USER_TABLE, {"v"}) >>
      [] text = BAD_SQL -> << Stmt("syntaxError", USER_TABLE, {}) >>
      [] text = DELETE_LEDGER -> << Stmt("deleteAll", MIGRATIONS_TABLE, {}) >>
      [] text = FORGE_LEDGER ->
            << Stmt("insert", MIGRATIONS_TABLE, [name |-> "m1", sql |-> "forged"]) >>
      [] text = DROP_DBS -> << Stmt("drop", DBS_TABLE, {}) >>
      [] text = CREATE_DBS_NAME_ONLY ->
            << Stmt("create", DBS_TABLE, Ddl({"name"}, "name")) >>
      [] text = CREATE_SPACED -> << Stmt("create", SPACED_TABLE, Ddl({"v"}, "v")) >>
      [] text = CREATE_SQLITE2 -> << Stmt("create", SQLITE2_TABLE, Ddl({"v"}, "v")) >>
      [] text = SEED_DBS -> << Stmt("insert", DBS_TABLE, [name |-> "a"]) >>
      [] text = INSERT_DBS_RESERVED ->
            << Stmt("insert", DBS_TABLE, [name |-> "_sor_x"]) >>
      [] text = RESHAPE_LEDGER ->
            << Stmt("drop", MIGRATIONS_TABLE, {}),
               Stmt("create", MIGRATIONS_TABLE, Ddl({"id"}, "id")) >>
      [] text = SYSTEM_MIGRATIONS[1].sql ->
            << Stmt("createIfNotExists", DBS_TABLE, DbsDdl) >>

----------------------------------------------------------------------------
(* class Db: the methods of the Durable Object, on its storage.             *)

\* ensureMigrationsTable(): CREATE TABLE IF NOT EXISTS _sor_migrations (...)
ensureMigrationsTable(s) ==
    ExecStmt(Stmt("createIfNotExists", MIGRATIONS_TABLE, MigrationsDdl), s).st

\* The ? placeholders of a text.
Placeholders(text) == IF text = INSERT_T_BOUND THEN 1 ELSE 0

\* (faulty variant) the values are spliced into the text between quotes and
\* the result is parsed: INSERT INTO t (v) VALUES ('x'); DROP TABLE t;--')
BindBySplicing(text, params) ==
    IF text = INSERT_T_BOUND
    THEN IF params[1] = INJECTION
         THEN << Stmt("insert", USER_TABLE, [v |-> "x"]), Stmt("drop", USER_TABLE, {}) >>
         ELSE << Stmt("insert", USER_TABLE, [v |-> params[1]]) >>
    ELSE SqlBody(text)

\* exec(query, ...params): the text is parsed as it is and each ? takes its
\* parameter as a value.
Bind(text, params) ==
    IF text = INSERT_T_BOUND
    THEN << Stmt("insert", USER_TABLE, [v |-> params[1]]) >>
    ELSE SqlBody(text)

\* Db.sql(query, params): the cursor's rows, or { error } with whatever the
\* statements before the failing one did; exec throws when the number of
\* parameters is not the number of placeholders.
DbSql(s, text, params) ==
    IF Len(params) # Placeholders(text)
    THEN Fail(s, "Wrong number of parameter bindings")
    ELSE ExecAll(Bind(text, params), s)

\* (faulty variant) the lookup finds no row.
MigrateLookupFindsNothing(s, name) == Ok(s, {})

\* migrate(), the lookup: SELECT name FROM _sor_migrations WHERE name = ?
MigrateLookup(s, name) ==
    ExecStmt(Stmt("selectWhereName", MIGRATIONS_TABLE, [cols |-> {"name"}, name |-> name]), s)

\* (faulty variant) the transaction does not record the name.
MigrateRecordSkipped(s, name, text) == Ok(s, {})

\* migrate(), second statement of the transaction:
\* INSERT INTO _sor_migrations (name, sql) VALUES (?, ?)
MigrateRecord(s, name, text) ==
    ExecStmt(Stmt("insert", MIGRATIONS_TABLE, [name |-> name, sql |-> text]), s)

\* saved: the storage transactionSync rolls back to; before (history): the
\* storage when migrate() was called.
NoTxn == [open |-> FALSE, owner |-> 0, saved |-> EmptyStorage, before |-> EmptyStorage]

\* (faulty variant) the rollback leaves what the callback did.
RollbackKeepsEffects(h) == store[h]

\* The storage of h after transactionSync rolled its callback back.
Rollback(h) == txn[h].saved

\* applied[h][name] after one more migrate(name) returned ok:true; the count
\* stops at CountCap.
CountCap == 2

CountUp(h, name) ==
    [applied EXCEPT ![h][name] = IF @ < CountCap THEN @ + 1 ELSE @]

\* (faulty variant) a call may start while a transaction of the object is open, as
\* if migrate awaited between its statements.
HandleAlwaysIdle(h) == TRUE

\* A Durable Object runs one method call at a time, and no method of Db
\* awaits: a call starts only when no other call of the object is running.
HandleIdle(h) == ~txn[h].open

\* Uncommitted effects of an open transaction are in the storage of h.
Dirty(h) == txn[h].open /\ store[h] # txn[h].saved

\* The rows and names of the ledger of storage s (none when the table is absent).
LedgerRows(s) == s[MIGRATIONS_TABLE].rows

LedgerNames(s) == {row["name"] : row \in LedgerRows(s)}

\* The rows and names of the catalog, in the storages st.
CatalogRowsIn(st) == st[REGISTRY_DB][DBS_TABLE].rows

CatalogNamesIn(st) == {row["name"] : row \in CatalogRowsIn(st)}

CatalogRows == CatalogRowsIn(store)

CatalogNames == CatalogNamesIn(store)

----------------------------------------------------------------------------
(* fetch: one invocation per request. The invocation yields at every await  *)
(* of a Durable Object call; pc names the call it is about to make.         *)

\* How many fetch invocations may be in flight at once.
MaxInFlight == 2

Slots == 1..MaxInFlight

\* A body field that is absent (undefined after destructuring).
Absent == "<undefined>"

\* JSON values that are not strings: null, and a number other than 0.
JsonNull == "<null>"

JsonNumber == "<42>"

IdleReq ==
    [route |-> "none", pc |-> "idle", db |-> "", name |-> "", sql |-> "",
     description |-> Null, mig |-> 0, failed |-> FALSE,
     status |-> 0, error |-> "", rows |-> {}]

NewReq(route, db, name, text, description) ==
    [IdleReq EXCEPT !.route = route, !.pc = "recv", !.db = db, !.name = name,
                    !.sql = text, !.description = description]

\* return json(body, status): the invocation ends with this response.
Respond(q, status, error, rows) ==
    [q EXCEPT !.pc = "done", !.mig = 0, !.failed = FALSE,
              !.sql = IF q.route = "migrate" THEN @ ELSE "",
              !.description = Null,
              !.status = status, !.error = error, !.rows = rows]

Free(r) == reqs[r].pc \in {"idle", "done"}

\* (faulty variant) only an absent field is missing.
IsMissingOnlyAbsent(v) == v = Absent

\* !v || typeof v !== "string", for the values the model sends.
IsMissing(v) == v \in {Absent, "", JsonNull, JsonNumber}

\* (faulty variant) only the registry's own name is refused.
StartsWithSorPrefixExact(name) == name = REGISTRY_DB

\* name.startsWith("_sor_"), over the names the model sends.
StartsWithSorPrefix(name) == name \in {REGISTRY_DB, "_sor_x"}

\* A Db method of handle h run by invocation r saw another call's
\* uncommitted transaction.
Observes(r, h) == Dirty(h) /\ txn[h].owner # r

Unchanged(r, q) ==
    /\ reqs' = [reqs EXCEPT ![r] = q]
    /\ UNCHANGED <<store, txn, applied, env, inbox, now, cli>>
    /\ sawOpenTxn' = sawOpenTxn

\* A Db method of handle h that leaves storage s behind and invocation r in q.
MethodStep(r, h, s, q) ==
    /\ reqs' = [reqs EXCEPT ![r] = q]
    /\ store' = [store EXCEPT ![h] = s]
    /\ sawOpenTxn' = (sawOpenTxn \/ Observes(r, h))
    /\ UNCHANGED <<txn, applied, env, inbox, now, cli>>

----------------------------------------------------------------------------
(* Db.migrate, called by POST /db/:db/migrate (mig = 0) and by               *)
(* ensureSystemMigrations for entry mig of the deployed script's           *)
(* SYSTEM_MIGRATIONS on the registry.                                       *)

\* (faulty variant) every migrate call goes to the registry object.
MigHandleRegistry(q) == REGISTRY_DB

MigHandle(q) == IF q.mig > 0 THEN REGISTRY_DB ELSE q.db

MigName(q) == IF q.mig > 0 THEN env.SYSTEM_MIGRATIONS[q.mig].name ELSE q.name

MigSql(q) == IF q.mig > 0 THEN env.SYSTEM_MIGRATIONS[q.mig].sql ELSE q.sql

\* The call the invocation makes once the registry is bootstrapped.
AfterBootstrap(route) ==
    CASE route = "createDb" -> "exists"
      [] route = "deleteDb" -> "exists"
      [] route = "listDbs" -> "list"
      [] route = "schema" -> "describe"

\* (faulty variant) a system migration that did not return ok:true fails the
\* request.
MigrateReturnedThrowing(q, ok, error) ==
    IF q.mig = 0
    THEN Respond(q, IF ok THEN 200 ELSE 400, error, {})
    ELSE IF ~ok
         THEN Respond(q, 500, error, {})
         ELSE [q EXCEPT !.pc = AfterBootstrap(q.route), !.mig = 0,
                        !.failed = FALSE, !.error = ""]

\* (faulty variant) a migration of the route that failed is tried again.
MigrateReturnedRetrying(q, ok, error) ==
    IF q.mig = 0
    THEN IF ~ok /\ error # "Migration already applied"
         THEN [q EXCEPT !.pc = "migrate", !.failed = FALSE, !.error = ""]
         ELSE Respond(q, IF ok THEN 200 ELSE 400, error, {})
    ELSE IF q.mig < Len(env.SYSTEM_MIGRATIONS)
         THEN [q EXCEPT !.pc = "migrate", !.mig = @ + 1, !.failed = FALSE, !.error = ""]
         ELSE [q EXCEPT !.pc = AfterBootstrap(q.route), !.mig = 0,
                        !.failed = FALSE, !.error = ""]

\* migrate() returned { ok, error, name } to the invocation.
MigrateReturned(q, ok, error) ==
    IF q.mig = 0
    THEN Respond(q, IF ok THEN 200 ELSE 400, error, {})
    ELSE IF q.mig < Len(env.SYSTEM_MIGRATIONS)
         THEN [q EXCEPT !.pc = "migrate", !.mig = @ + 1, !.failed = FALSE, !.error = ""]
         ELSE [q EXCEPT !.pc = AfterBootstrap(q.route), !.mig = 0,
                        !.failed = FALSE, !.error = ""]

\* migrate() up to and including exec(sql) inside transactionSync.
MigrateBegin(r) ==
    LET q == reqs[r]
        h == MigHandle(q)
        s1 == ensureMigrationsTable(store[h])
        existing == MigrateLookup(s1, MigName(q))
        ran == ExecAll(SqlBody(MigSql(q)), s1)
    IN  /\ q.pc = "migrate"
        /\ HandleIdle(h)
        /\ sawOpenTxn' = (sawOpenTxn \/ Observes(r, h))
        /\ UNCHANGED <<applied, env, inbox, now, cli>>
        /\ IF ~existing.ok
           THEN \* the lookup throws outside the try: the call rejects
                /\ reqs' = [reqs EXCEPT ![r] = Respond(q, 500, existing.error, {})]
                /\ store' = [store EXCEPT ![h] = s1]
                /\ UNCHANGED txn
           ELSE IF existing.rows # {}
           THEN /\ reqs' = [reqs EXCEPT ![r] =
                               MigrateReturned(q, FALSE, "Migration already applied")]
                /\ store' = [store EXCEPT ![h] = s1]
                /\ UNCHANGED txn
           ELSE /\ txn' = [txn EXCEPT ![h] = [open |-> TRUE, owner |-> r, saved |-> s1,
                                                  before |-> store[h]]]
                /\ store' = [store EXCEPT ![h] = ran.st]
                /\ reqs' = [reqs EXCEPT ![r] =
                               [q EXCEPT !.pc = "inTxn", !.failed = ~ran.ok,
                                         !.error = ran.error]]

\* The rest of the transaction: the ledger insert, then commit; or the
\* rollback when exec(sql) or the insert threw.
MigrateFinish(r) ==
    LET q == reqs[r]
        h == MigHandle(q)
        rec == MigrateRecord(store[h], MigName(q), MigSql(q))
    IN  /\ q.pc = "inTxn"
        /\ txn[h].open /\ txn[h].owner = r
        /\ txn' = [txn EXCEPT ![h] = NoTxn]
        /\ sawOpenTxn' = sawOpenTxn
        /\ UNCHANGED <<env, inbox, now, cli>>
        /\ IF q.failed
           THEN /\ store' = [store EXCEPT ![h] = Rollback(h)]
                /\ reqs' = [reqs EXCEPT ![r] = MigrateReturned(q, FALSE, q.error)]
                /\ UNCHANGED applied
           ELSE IF ~rec.ok
           THEN /\ store' = [store EXCEPT ![h] = Rollback(h)]
                /\ reqs' = [reqs EXCEPT ![r] = MigrateReturned(q, FALSE, rec.error)]
                /\ UNCHANGED applied
           ELSE /\ store' = [store EXCEPT ![h] = rec.st]
                /\ reqs' = [reqs EXCEPT ![r] = MigrateReturned(q, TRUE, "")]
                /\ applied' = CountUp(h, MigName(q))

----------------------------------------------------------------------------
(* The routes. Every request below carries the right X-API-Key.             *)

\* description || null
OrNull(v) == IF v \in {Absent, ""} THEN Null ELSE v

\* (faulty variant) the route goes on without ensureRegistry().
StartBootstrapSkipped(q) == [q EXCEPT !.pc = AfterBootstrap(q.route)]

\* ensureRegistry(): the first system migration is up next.
StartBootstrap(q) ==
    IF Len(env.SYSTEM_MIGRATIONS) = 0
    THEN [q EXCEPT !.pc = AfterBootstrap(q.route)]
    ELSE [q EXCEPT !.pc = "migrate", !.mig = 1]

\* POST /dbs, up to ensureRegistry().
CreateDbRecv(r, name, description) ==
    LET q == NewReq("createDb", "", name, "", description) IN
    /\ Free(r)
    /\ Unchanged(r,
         IF IsMissing(name) THEN Respond(q, 400, "name is required", {})
         ELSE IF StartsWithSorPrefix(name)
              THEN Respond(q, 400, "Database name cannot start with _sor_", {})
         ELSE StartBootstrap(q))

\* DELETE /dbs/:name, up to ensureRegistry().
DeleteDbRecv(r, name) ==
    LET q == NewReq("deleteDb", "", name, "", Null) IN
    /\ Free(r)
    /\ Unchanged(r,
         IF StartsWithSorPrefix(name)
         THEN Respond(q, 400, "Cannot delete system database", {})
         ELSE StartBootstrap(q))

\* POST /dbs and DELETE /dbs/:name: SELECT name FROM dbs WHERE name = ?
\* A failed query has no rows property and reading its length throws.
CatalogExists(r) ==
    LET q == reqs[r]
        existing == ExecStmt(Stmt("selectWhereName", DBS_TABLE,
                                  [cols |-> {"name"}, name |-> q.name]),
                             store[REGISTRY_DB])
    IN  /\ q.pc = "exists"
        /\ q.route \in {"createDb", "deleteDb"}
        /\ HandleIdle(REGISTRY_DB)
        /\ MethodStep(r, REGISTRY_DB, existing.st,
             IF ~existing.ok
             THEN Respond(q, 500, "Cannot read properties of undefined", {})
             ELSE IF q.route = "createDb" /\ existing.rows # {}
                  THEN Respond(q, 409, "Database already exists", {})
             ELSE IF q.route = "deleteDb" /\ existing.rows = {}
                  THEN Respond(q, 404, "Database not found", {})
             ELSE [q EXCEPT !.pc = "write"])

\* POST /dbs: INSERT INTO dbs (name, description) VALUES (?, ?); the result
\* of the call is not looked at.
CreateDbInsert(r) ==
    LET q == reqs[r]
        ins == ExecStmt(Stmt("insert", DBS_TABLE,
                             [name |-> q.name, description |-> OrNull(q.description)]),
                        store[REGISTRY_DB])
    IN  /\ q.pc = "write"
        /\ q.route = "createDb"
        /\ HandleIdle(REGISTRY_DB)
        /\ MethodStep(r, REGISTRY_DB, ins.st, Respond(q, 201, "", {}))

\* (faulty variant) the DELETE has no WHERE clause.
StorageAfterDeleteOfAll(name) ==
    [store EXCEPT ![REGISTRY_DB] = ExecStmt(Stmt("deleteAll", DBS_TABLE, {}), @).st]

\* (faulty variant) the storage of the deleted database is wiped as well.
StorageAfterDeleteWipes(name) ==
    [h \in Handles |->
        IF h = REGISTRY_DB
        THEN ExecStmt(Stmt("deleteWhereName", DBS_TABLE, name), store[h]).st
        ELSE IF h = name THEN EmptyStorage ELSE store[h]]

\* Every storage after DELETE /dbs/:name ran DELETE FROM dbs WHERE name = ?
\* on the registry: the storage of the Durable Object called name stays.
StorageAfterDelete(name) ==
    [store EXCEPT ![REGISTRY_DB] =
        ExecStmt(Stmt("deleteWhereName", DBS_TABLE, name), @).st]

\* DELETE /dbs/:name: the removal; the result of the call is not looked at.
DeleteDbDelete(r) ==
    LET q == reqs[r]
    IN  /\ q.pc = "write"
        /\ q.route = "deleteDb"
        /\ HandleIdle(REGISTRY_DB)
        /\ reqs' = [reqs EXCEPT ![r] = Respond(q, 200, "", {})]
        /\ store' = StorageAfterDelete(q.name)
        /\ sawOpenTxn' = (sawOpenTxn \/ Observes(r, REGISTRY_DB))
        /\ UNCHANGED <<txn, applied, env, inbox, now, cli>>

\* POST /db/:db/sql, up to the call of db.sql.
SqlRecv(r, db, text) ==
    LET q == NewReq("sql", db, "", text, Null) IN
    /\ Free(r)
    /\ Unchanged(r,
         IF IsMissing(text) THEN Respond(q, 400, "sql is required", {})
         ELSE [q EXCEPT !.pc = "call"])

\* POST /db/:db/sql: db.sql(sql, params) and the response; params is the
\* array of the request's body, [] without one.
SqlCall(r) ==
    LET q == reqs[r]
        result == DbSql(store[q.db], q.sql, inbox[r].body.params)
    IN  /\ q.pc = "call"
        /\ q.route = "sql"
        /\ HandleIdle(q.db)
        /\ MethodStep(r, q.db, result.st,
             IF ~result.ok THEN Respond(q, 400, result.error, {})
             ELSE Respond(q, 200, "", result.rows))

\* POST /db/:db/migrate, up to the call of db.migrate.
MigrateRecv(r, db, name, text) ==
    LET q == NewReq("migrate", db, name, text, Null) IN
    /\ Free(r)
    /\ Unchanged(r,
         IF IsMissing(name) THEN Respond(q, 400, "name is required", {})
         ELSE IF IsMissing(text) THEN Respond(q, 400, "sql is required", {})
         ELSE [q EXCEPT !.pc = "migrate"])

\* GET /db/:db/migrations, up to the call of db.listMigrations.
MigrationsRecv(r, db) ==
    /\ Free(r)
    /\ Unchanged(r, [NewReq("migrations", db, "", "", Null) EXCEPT !.pc = "call"])

\* Db.listMigrations(): ensureMigrationsTable, then
\* SELECT name, applied_at FROM _sor_migrations ORDER BY applied_at;
\* a throw of the query rejects the call.
MigrationsCall(r) ==
    LET q == reqs[r]
        s1 == ensureMigrationsTable(store[q.db])
        cursor == ExecStmt(Stmt("selectOrderBy", MIGRATIONS_TABLE,
                                [cols |-> {"name", "applied_at"}, by |-> "applied_at"]), s1)
    IN  /\ q.pc = "call"
        /\ q.route = "migrations"
        /\ HandleIdle(q.db)
        /\ MethodStep(r, q.db, s1,
             IF ~cursor.ok THEN Respond(q, 500, cursor.error, {})
             ELSE Respond(q, 200, "", cursor.rows))


\* GET /dbs, up to ensureRegistry().
ListDbsRecv(r) ==
    /\ Free(r)
    /\ Unchanged(r, StartBootstrap(NewReq("listDbs", "", "", "", Null)))

\* GET /dbs: SELECT name, description, created_at FROM dbs ORDER BY created_at
\* and json({ dbs: result.rows }); a failed query has no rows (failed is set).
ListDbsCall(r) ==
    LET q == reqs[r]
        result == ExecStmt(Stmt("selectOrderBy", DBS_TABLE,
                                [cols |-> {"name", "description", "created_at"},
                                 by |-> "created_at"]),
                           store[REGISTRY_DB])
    IN  /\ q.pc = "list"
        /\ HandleIdle(REGISTRY_DB)
        /\ MethodStep(r, REGISTRY_DB, result.st,
             [Respond(q, 200, "", result.rows) EXCEPT !.failed = ~result.ok])

\* name LIKE 'sqlite_%', over the table names of the model: LIKE ignores
\* case and _ stands for any one character, so the pattern matches every
\* name of seven or more characters that begins with sqlite.
LikeSqlitePrefix(name) == name \in {SQLITE2_TABLE}

\* exec(`PRAGMA table_info(${tableName})`): the name is put into the text
\* as it is, so the text parses only when the name is a bare identifier.
PragmaTableInfo(s, name) ==
    IF name \in {SPACED_TABLE} THEN Fail(s, "syntax error") ELSE Ok(s, s[name].cols)

\* Db.getSchema(): the tables of sqlite_master whose name is not LIKE
\* 'sqlite_%' and is not _sor_migrations, each with its table_info; a throw
\* of either query makes the result { error }.
getSchema(s) ==
    LET tables == {x \in TableNames :
                     s[x].exists /\ ~LikeSqlitePrefix(x) /\ x # MIGRATIONS_TABLE}
    IN  IF \E tb \in tables : ~PragmaTableInfo(s, tb).ok
        THEN Fail(s, PragmaTableInfo(s, CHOOSE tb \in tables :
                                           ~PragmaTableInfo(s, tb).ok).error)
        ELSE Ok(s, {[table |-> tb, columns |-> PragmaTableInfo(s, tb).rows] :
                       tb \in tables})

\* GET /db/:db/schema, up to the call of db.getSchema.
SchemaRecv(r, db) ==
    /\ Free(r)
    /\ Unchanged(r, [NewReq("schema", db, "", "", Null) EXCEPT !.pc = "call"])

\* GET /db/:db/schema: db.getSchema(), 400 when it returned an error, else
\* ensureRegistry().
SchemaCall(r) ==
    LET q == reqs[r] IN
    /\ q.pc = "call"
    /\ q.route = "schema"
    /\ HandleIdle(q.db)
    /\ MethodStep(r, q.db, store[q.db],
         LET result == getSchema(store[q.db]) IN
         IF ~result.ok THEN Respond(q, 400, result.error, {})
         ELSE StartBootstrap([q EXCEPT !.rows = result.rows]))

\* GET /db/:db/schema: SELECT description FROM dbs WHERE name = ? and the
\* response; a failed query has no rows property and reading its length throws.
SchemaDescribe(r) ==
    LET q == reqs[r]
        dbInfo == ExecStmt(Stmt("selectWhereName", DBS_TABLE,
                                [cols |-> {"description"}, name |-> q.db]),
                           store[REGISTRY_DB])
    IN  /\ q.pc = "describe"
        /\ HandleIdle(REGISTRY_DB)
        /\ MethodStep(r, REGISTRY_DB, dbInfo.st,
             IF ~dbInfo.ok
             THEN Respond(q, 500, "Cannot read properties of undefined", {})
             ELSE [Respond(q, 200, "", q.rows) EXCEPT !.description =
                      IF dbInfo.rows = {} THEN Null
                      ELSE (CHOOSE row \in dbInfo.rows : TRUE)["description"]])

----------------------------------------------------------------------------
(* fetch, from the request as it arrived: the studio route, the auth check,  *)
(* the path segment and the body, before the route's own code.              *)

\* The values SOR_API_KEY takes.
Secrets == {"k1", "k2"}

NoBody ==
    [kind |-> "none", name |-> Absent, description |-> Absent, sql |-> Absent,
     params |-> <<>>]

\* A JSON object body with these fields (Absent: the field is not there).
ObjectBody(name, description, text) ==
    [kind |-> "object", name |-> name, description |-> description, sql |-> text,
     params |-> <<>>]

\* The body with a params array (without the field, params is []).
WithParams(body, params) == [body EXCEPT !.params = params]

\* The JSON body null.
NullBody == [NoBody EXCEPT !.kind = "null"]

\* A body that is not JSON ("{ invalid json }", or no bytes at all).
InvalidBody == [NoBody EXCEPT !.kind = "invalid"]

NoRequest == [route |-> "none", key |-> Absent, seg |-> "", body |-> NoBody]

\* A request: its route (method and path shape), its X-API-Key header
\* (Absent: no header), the :name / :db segment of its path as sent (for the
\* studio route, its db query parameter) and its body.
Request(route, key, seg, body) ==
    [route |-> route, key |-> key, seg |-> seg, body |-> body]

\* (faulty variant) every escape decodes to the same character.
decodeURIComponentOneChar(seg) ==
    IF seg \in {"%61", "%62"} THEN "a" ELSE seg

\* decodeURIComponent, over the segments the model sends.
decodeURIComponent(seg) ==
    CASE seg = "%61" -> "a"
      [] seg = "%62" -> "b"
      [] seg = "%5Fsor_x" -> "_sor_x"
      [] seg = "a%20b" -> "a b"
      [] OTHER -> seg

\* decodeURIComponent throws URIError on a stray percent sign.
IsMalformed(seg) == seg = "%"

\* The runtime hands req to slot r; the earlier response of the slot is gone.
Deliver(r, req) ==
    /\ Free(r)
    /\ reqs' = [reqs EXCEPT ![r] = IdleReq]
    /\ inbox' = [inbox EXCEPT ![r] = req]

\* A request arrives for slot r.
Arrive(r, req) ==
    /\ Deliver(r, req)
    /\ UNCHANGED <<store, txn, applied, sawOpenTxn, env, now, cli>>

\* The request of slot r has arrived and fetch has not run for it yet.
Pending(r) == reqs[r].pc = "idle" /\ inbox[r].route # "none"

\* (faulty variant) the key is not compared.
AuthCheckSkipped(key) == TRUE

\* The auth check passes: apiKey === env.SOR_API_KEY (a request without the
\* header has apiKey null).
AuthCheck(key) == key = env.SOR_API_KEY

\* The response of a route that fetch ended before reading path or body.
Early(route, status, error, rows) ==
    Respond([IdleReq EXCEPT !.route = route], status, error, rows)

\* The page of the studio route: it embeds the API key and the db parameter.
StudioPage(dbName, apiKey) ==
    [page |-> IF dbName = "" THEN "landing" ELSE "database",
     DB_NAME |-> dbName, API_KEY |-> apiKey]

\* GET /__studio: no auth check.
Studio(r) ==
    /\ Pending(r)
    /\ inbox[r].route = "studio"
    /\ Unchanged(r, Early("studio", 200, "",
                          {StudioPage(inbox[r].seg, env.SOR_API_KEY)}))

\* Any other path, the key absent or different from the secret: 401.
Unauthorized(r) ==
    /\ Pending(r)
    /\ inbox[r].route # "studio"
    /\ ~AuthCheck(inbox[r].key)
    /\ Unchanged(r, Early(inbox[r].route, 401, "Unauthorized", {}))

\* fetch got past the auth check on the given route.
Routed(r, route) ==
    /\ Pending(r)
    /\ inbox[r].route = route
    /\ AuthCheck(inbox[r].key)

\* getBody throws SyntaxError on a body that is not JSON, and destructuring
\* the body null throws TypeError; the catch answers 500.
Destructured(r, route, A) ==
    IF inbox[r].body.kind = "invalid"
    THEN Unchanged(r, Early(route, 500, "Unexpected token in JSON", {}))
    ELSE IF inbox[r].body.kind = "null"
    THEN Unchanged(r, Early(route, 500, "Cannot destructure property of null", {}))
    ELSE A

\* No route matches the method and path: 404, the body unread.
NotFound(r) ==
    /\ Routed(r, "unknown")
    /\ Unchanged(r, Early("unknown", 404, "Not found", {}))

\* POST /dbs
FetchCreateDb(r) ==
    /\ Routed(r, "createDb")
    /\ Destructured(r, "createDb",
          CreateDbRecv(r, inbox[r].body.name, inbox[r].body.description))

\* DELETE /dbs/:name
FetchDeleteDb(r) ==
    /\ Routed(r, "deleteDb")
    /\ IF IsMalformed(inbox[r].seg)
       THEN Unchanged(r, Early("deleteDb", 500, "URI malformed", {}))
       ELSE DeleteDbRecv(r, decodeURIComponent(inbox[r].seg))

\* POST /db/:db/sql
FetchSql(r) ==
    /\ Routed(r, "sql")
    /\ IF IsMalformed(inbox[r].seg)
       THEN Unchanged(r, Early("sql", 500, "URI malformed", {}))
       ELSE Destructured(r, "sql",
              SqlRecv(r, decodeURIComponent(inbox[r].seg), inbox[r].body.sql))

\* POST /db/:db/migrate
FetchMigrate(r) ==
    /\ Routed(r, "migrate")
    /\ IF IsMalformed(inbox[r].seg)
       THEN Unchanged(r, Early("migrate", 500, "URI malformed", {}))
       ELSE Destructured(r, "migrate",
              MigrateRecv(r, decodeURIComponent(inbox[r].seg),
                          inbox[r].body.name, inbox[r].body.sql))

\* A second passes on the wall clock.
MaxClock == 2

Tick ==
    /\ now < MaxClock
    /\ now' = now + 1
    /\ UNCHANGED <<store, txn, reqs, applied, sawOpenTxn, env, inbox, cli>>

\* The secret of the deployment is replaced (wrangler secret put).
SecretPut(secret) ==
    /\ secret # env.SOR_API_KEY
    /\ env' = [env EXCEPT !.SOR_API_KEY = secret]
    /\ UNCHANGED <<store, txn, reqs, applied, sawOpenTxn, inbox, now, cli>>

\* A version of the worker script is deployed (wrangler deploy): the
\* invocations that start after it run its SYSTEM_MIGRATIONS. An invocation
\* in flight keeps the script it started with, so the step is taken between
\* invocations.
Deploy(list) ==
    /\ list # env.SYSTEM_MIGRATIONS
    /\ \A r \in Slots : Free(r)
    /\ env' = [env EXCEPT !.SYSTEM_MIGRATIONS = list]
    /\ UNCHANGED <<store, txn, reqs, applied, sawOpenTxn, inbox, now, cli>>

----------------------------------------------------------------------------
(* The command line client (cli/src): its config file ~/.sor/config.json  *)
(* and the outcome of the command that ran last.                          *)

\* A config object: url and key, each a string or absent.
Config(url, key) == [url |-> url, key |-> key]

\* The content of the config file: no file, a JSON object, or another JSON
\* value (null, an array).
ConfigFile(kind, obj) == [kind |-> kind, obj |-> obj]

\* phase: idle, waiting (the command awaits the response of its request) or
\* done; cmd and args: the command that ran last; failed and msg: whether it
\* ended in this.error and the message it printed (the first line of it);
\* sent: the HTTP requests it sent.
NoCli == [file |-> ConfigFile("missing", Config(Absent, Absent)),
          phase |-> "idle", cmd |-> "none", args |-> <<>>,
          failed |-> FALSE, msg |-> "", sent |-> 0]

\* getConfig(): {} without a file, else JSON.parse of its content.
getConfig(file) ==
    IF file.kind = "missing" THEN ConfigFile("object", Config(Absent, Absent)) ELSE file

\* saveConfig(config): the file holds JSON.stringify(config), which for an
\* array has its elements only (none), not the properties set on it.
saveConfig(config) ==
    IF config.kind = "array" THEN ConfigFile("array", Config(Absent, Absent)) ELSE config

\* What a command ends with: this.error(msg) or this.log(msg).
Outcome(cmd, args, failed, msg, sent) ==
    [cli EXCEPT !.phase = "done", !.cmd = cmd, !.args = args,
                !.failed = failed, !.msg = msg, !.sent = sent]

\* The client alone takes a step.
CliOnly == UNCHANGED <<store, txn, reqs, applied, sawOpenTxn, env, inbox, now>>

\* The config file is written from outside the client (an editor, a setup).
WriteConfigFile(file) ==
    /\ cli.phase # "waiting"
    /\ cli' = [NoCli EXCEPT !.file = file]
    /\ CliOnly

\* sor config set <key> <value> (ConfigSet.run): on null the assignment
\* throws TypeError and nothing is saved.
ConfigSet(k, v) ==
    LET config == getConfig(cli.file) IN
    /\ cli.phase # "waiting"
    /\ cli' = IF config.kind = "null"
              THEN Outcome("configSet", <<k, v>>, TRUE, "Cannot set properties of null", 0)
              ELSE [Outcome("configSet", <<k, v>>, FALSE, "Set " \o k \o " = " \o v, 0)
                      EXCEPT !.file = saveConfig([config EXCEPT !.obj[k] = v])]
    /\ CliOnly

\* !x for a config value: absent or the empty string.
Falsy(x) == x \in {Absent, ""}

\* (faulty variant) only the key is looked at.
MissingKeysOnlyKey(config) == IF Falsy(config.key) THEN <<"key">> ELSE <<>>

\* api(): the missing array, url before key.
MissingKeys(config) ==
    (IF Falsy(config.url) THEN <<"url">> ELSE <<>>)
        \o (IF Falsy(config.key) THEN <<"key">> ELSE <<>>)

\* missing.join(", ") for an array of at most two.
Join(missing) ==
    IF missing = <<>> THEN ""
    ELSE IF Len(missing) = 1 THEN missing[1]
    ELSE missing[1] \o ", " \o missing[2]

\* The commands run: their name, and the request api() sends for them apart
\* from the X-API-Key header (the names sent consist of characters that
\* encodeURIComponent leaves as they are).
Command(cmd, route, seg, body) ==
    [cmd |-> cmd, route |-> route, seg |-> seg, body |-> body, args |-> <<>>]

\* encodeURIComponent, over the names the commands are given: a space is
\* escaped; letters and the dot are left as they are.
encodeURIComponent(name) ==
    CASE name = "a b" -> "a%20b"
      [] OTHER -> name

\* new URL(url).pathname as its segments, for the path whose segments are
\* segs: a segment "." is dropped and a segment ".." is dropped together
\* with the segment before it; when the last segment is one of the two, the
\* path ends in an empty segment. fetch() parses the URL it is given this
\* way and the worker parses request.url this way.
RECURSIVE Shortened(_)
Shortened(segs) ==
    IF segs = <<>> THEN <<>>
    ELSE LET front == Shortened(SubSeq(segs, 1, Len(segs) - 1))
             last == segs[Len(segs)]
         IN  IF last = "." THEN front
             ELSE IF last = ".."
                  THEN IF front = <<>> THEN <<>> ELSE SubSeq(front, 1, Len(front) - 1)
             ELSE Append(front, last)

UrlPathname(segs) ==
    IF segs # <<>> /\ segs[Len(segs)] \in {".", ".."}
    THEN Append(Shortened(segs), "")
    ELSE Shortened(segs)

\* The route whose method and pattern match the path, with the segment its
\* pattern captures ([^/]+: one segment that is not empty).
MatchRoute(method, path) ==
    LET captured == Len(path) >= 2 /\ path[2] # ""
        under(last) == Len(path) = 3 /\ path[1] = "db" /\ captured /\ path[3] = last
        found(route, seg) == [route |-> route, seg |-> seg]
    IN  CASE method = "POST" /\ path = <<"dbs">> -> found("createDb", "")
          [] method = "GET" /\ path = <<"dbs">> -> found("listDbs", "")
          [] method = "DELETE" /\ Len(path) = 2 /\ path[1] = "dbs" /\ captured
                -> found("deleteDb", path[2])
          [] method = "POST" /\ under("sql") -> found("sql", path[2])
          [] method = "POST" /\ under("migrate") -> found("migrate", path[2])
          [] method = "GET" /\ under("migrations") -> found("migrations", path[2])
          [] method = "GET" /\ under("schema") -> found("schema", path[2])
          [] OTHER -> found("unknown", "")

\* sor db delete <name>, sor sql <db> ..., sor migrate <db> ...: the request
\* for `/db/${encodeURIComponent(args.db)}/sql` and the like, and the name in
\* args.
NameCommand(cmd, name, body) ==
    LET path == CASE cmd = "dbDelete" -> <<"dbs", encodeURIComponent(name)>>
                  [] cmd = "sql" -> <<"db", encodeURIComponent(name), "sql">>
                  [] cmd = "migrate" -> <<"db", encodeURIComponent(name), "migrate">>
        method == IF cmd = "dbDelete" THEN "DELETE" ELSE "POST"
        matched == MatchRoute(method, UrlPathname(path))
    IN  [Command(cmd, matched.route, matched.seg, body) EXCEPT !.args = <<name>>]

\* api(), up to the fetch: reading url of the config null throws TypeError;
\* with url or key missing the command fails before any request; else the
\* request goes out with the config's key in X-API-Key.
ApiCall(c) ==
    LET file == getConfig(cli.file)
        missing == MissingKeys(file.obj)
    IN  /\ cli.phase # "waiting"
        /\ IF file.kind = "null"
           THEN /\ cli' = Outcome(c.cmd, <<>>, TRUE, "Cannot read properties of null", 0)
                /\ CliOnly
           ELSE IF missing # <<>>
           THEN /\ cli' = Outcome(c.cmd, <<>>, TRUE,
                                 "Configuration missing: " \o Join(missing), 0)
                /\ CliOnly
           ELSE /\ Deliver(1, Request(c.route, file.obj.key, c.seg, c.body))
                /\ cli' = [Outcome(c.cmd, c.args, FALSE, "", 1) EXCEPT !.phase = "waiting"]
                /\ UNCHANGED <<store, txn, applied, sawOpenTxn, env, now>>

\* response.ok: a status of 200 to 299.
ResponseOk(status) == status \in 200..299

\* (faulty variant) only a 5xx status makes api() fail.
ApiThrowsOnServerError(status, error) == status >= 500 /\ error # ""

\* api() after the fetch: !response.ok && data.error
ApiThrows(status, error) == ~ResponseOk(status) /\ error # ""

\* The line a command logs for the data api() returned.
Logged(cmd, response) ==
    CASE cmd = "dbCreate" -> "Created database: " \o response.name
      [] cmd = "dbDelete" -> "Deleted database: " \o response.name
      [] cmd = "migrate" -> "Applied migration: " \o response.name
      [] OTHER -> "rows"

\* api() from the response on, and the rest of the command's run(): migrate
\* logs only when the data has ok: true and fails otherwise.
ApiReturn ==
    LET response == reqs[1] IN
    /\ cli.phase = "waiting"
    /\ response.pc = "done"
    /\ cli' = IF ApiThrows(response.status, response.error)
              THEN Outcome(cli.cmd, <<>>, TRUE, response.error, 1)
              ELSE IF cli.cmd = "migrate" /\ response.status # 200
              THEN Outcome(cli.cmd, <<>>, TRUE,
                           IF response.error # "" THEN response.error
                           ELSE "Migration failed", 1)
              ELSE Outcome(cli.cmd, <<>>, FALSE, Logged(cli.cmd, response), 1)
    /\ CliOnly

----------------------------------------------------------------------------
(* Specifications *)

\* Migration names sent to the database "a", and every migration name.
MigNames == {"m1", "m2"}

AllMigNames ==
    MigNames \cup {LATER_SYSTEM_MIGRATIONS[i].name : i \in 1..Len(LATER_SYSTEM_MIGRATIONS)}

Init ==
    /\ store = [h \in Handles |-> EmptyStorage]
    /\ txn = [h \in Handles |-> NoTxn]
    /\ reqs = [r \in Slots |-> IdleReq]
    /\ applied = [h \in Handles |-> [n \in AllMigNames |-> 0]]
    /\ sawOpenTxn = FALSE
    /\ env = [SOR_API_KEY |-> "k1", SYSTEM_MIGRATIONS |-> SYSTEM_MIGRATIONS]
    /\ inbox = [r \in Slots |-> NoRequest]
    /\ now = 0
    /\ cli = NoCli


DbTexts == {CREATE_T, INSERT_T, CREATE_T_THEN_FAIL, SELECT_T, BAD_SQL,
            DELETE_LEDGER, FORGE_LEDGER}

\* Requests to the /db/a/... routes with any of the texts, one invocation
\* after the other (slot 1), any number of them.
NextDb ==
    \E r \in {1} :
        \/ \E text \in DbTexts \cup {Absent} : SqlRecv(r, "a", text)
        \/ SqlCall(r)
        \/ \E name \in MigNames \cup {Absent}, text \in DbTexts \cup {Absent} :
              MigrateRecv(r, "a", name, text)
        \/ MigrateBegin(r)
        \/ MigrateFinish(r)
        \/ MigrationsRecv(r, "a")
        \/ MigrationsCall(r)
        \/ SchemaRecv(r, "a")
        \/ SchemaCall(r)
        \/ SchemaDescribe(r)

SpecDb == Init /\ [][NextDb]_vars

\* Texts of the concurrent requests to "a".
RaceTexts == {CREATE_T_IF_NOT_EXISTS, CREATE_T_THEN_FAIL, INSERT_T}

\* Concurrent requests to the /db/a/... routes: up to MaxInFlight invocations
\* in flight, interleaved at their awaits.
NextRace ==
    \E r \in Slots :
        \/ \E text \in {INSERT_T, SELECT_T} : SqlRecv(r, "a", text)
        \/ SqlCall(r)
        \/ \E text \in RaceTexts : MigrateRecv(r, "a", "m1", text)
        \/ MigrateBegin(r)
        \/ MigrateFinish(r)
        \/ MigrationsRecv(r, "a")
        \/ MigrationsCall(r)
        \/ SchemaRecv(r, "a")
        \/ SchemaCall(r)
        \/ SchemaDescribe(r)

SpecRace == Init /\ [][NextRace]_vars

\* Names and descriptions sent to POST /dbs and DELETE /dbs/:name.
CatalogNameInputs == {"a", "A", "_sor_x"}

DescriptionInputs == {Absent, "d1"}

\* The catalog routes and a few requests to the database "a", two
\* invocations at a time; the registry is reached through the catalog routes
\* only.
NextCatalog ==
    \E r \in {1, 2} :
        \/ \E name \in CatalogNameInputs \cup {Absent}, description \in DescriptionInputs :
              CreateDbRecv(r, name, description)
        \/ \E name \in CatalogNameInputs : DeleteDbRecv(r, name)
        \/ CatalogExists(r)
        \/ CreateDbInsert(r)
        \/ DeleteDbDelete(r)
        \/ MigrateBegin(r)
        \/ MigrateFinish(r)
        \/ MigrateRecv(r, "a", "m1", CREATE_T_IF_NOT_EXISTS)
        \/ \E text \in {INSERT_T, SELECT_T} : SqlRecv(r, "a", text)
        \/ SqlCall(r)

SpecCatalog == Init /\ [][NextCatalog]_vars

\* Concurrent POST /dbs requests and nothing else.
NextCreateRace ==
    \E r \in Slots :
        \/ \E name \in {"a", "A"}, description \in DescriptionInputs :
              CreateDbRecv(r, name, description)
        \/ CatalogExists(r)
        \/ CreateDbInsert(r)
        \/ MigrateBegin(r)
        \/ MigrateFinish(r)

SpecCreateRace == Init /\ [][NextCreateRace]_vars

\* Migrations of the database "a", catalog entries made and removed, and
\* the two listings, one invocation after the other, while the clock
\* advances or stands still between them.
NextOrder ==
    \/ \E r \in {1} :
          \/ \E name \in MigNames : MigrateRecv(r, "a", name, CREATE_T_IF_NOT_EXISTS)
          \/ MigrateBegin(r)
          \/ MigrateFinish(r)
          \/ MigrationsRecv(r, "a")
          \/ MigrationsCall(r)
          \/ \E name \in {"a", "b"} : CreateDbRecv(r, name, Absent)
          \/ \E name \in {"a", "b"} : DeleteDbRecv(r, name)
          \/ CatalogExists(r)
          \/ CreateDbInsert(r)
          \/ DeleteDbDelete(r)
          \/ ListDbsRecv(r)
          \/ ListDbsCall(r)
    \/ Tick

SpecOrder == Init /\ [][NextOrder]_vars

\* Values sent as a parameter and as a database name.
Values == {"x", "a", INJECTION}

\* Requests with a value in params or as the name, and ones that read back.
InjectRequests ==
    {Request("sql", "k1", "a", ObjectBody(Absent, Absent, text)) :
        text \in {CREATE_T, SELECT_T}}
    \cup {Request("sql", "k1", "a",
                  WithParams(ObjectBody(Absent, Absent, INSERT_T_BOUND), <<v>>)) :
             v \in Values}
    \cup {Request("sql", "k1", "a", ObjectBody(Absent, Absent, INSERT_T_BOUND))}
    \cup {Request("createDb", "k1", "", ObjectBody(v, Absent, Absent)) : v \in Values}

NextInject ==
    \E r \in {1} :
        \/ \E req \in InjectRequests : Arrive(r, req)
        \/ FetchSql(r)
        \/ SqlCall(r)
        \/ FetchCreateDb(r)
        \/ MigrateBegin(r)
        \/ MigrateFinish(r)
        \/ CatalogExists(r)
        \/ CreateDbInsert(r)
        \/ ListDbsRecv(r)
        \/ ListDbsCall(r)

SpecInject == Init /\ [][NextInject]_vars

\* Requests to every kind of route, to a path no route matches and to the
\* studio route, with and without the key, with bodies that are not JSON,
\* the body null, object bodies with and without their fields, and no body.
RouterRequests ==
    {Request(route, key, "a", body) :
        route \in {"createDb", "deleteDb", "sql", "migrate", "unknown", "studio"},
        key \in {"k1", Absent},
        body \in {NoBody, InvalidBody, NullBody,
                  ObjectBody(Absent, Absent, Absent),
                  ObjectBody("a", Absent, Absent),
                  ObjectBody("m1", Absent, CREATE_T_IF_NOT_EXISTS)}}

NextRouter ==
    \E r \in {1} :
        \/ \E req \in RouterRequests : Arrive(r, req)
        \/ Studio(r)
        \/ Unauthorized(r)
        \/ NotFound(r)
        \/ FetchCreateDb(r)
        \/ FetchDeleteDb(r)
        \/ FetchSql(r)
        \/ FetchMigrate(r)
        \/ MigrateBegin(r)
        \/ MigrateFinish(r)
        \/ CatalogExists(r)
        \/ CreateDbInsert(r)
        \/ DeleteDbDelete(r)
        \/ SqlCall(r)

SpecRouter == Init /\ [][NextRouter]_vars

\* The config file contents written from outside: an object with url and
\* key absent, empty or set (the key right or wrong), null, and an array.
ConfigFiles ==
    {ConfigFile("object", Config(url, key)) :
        url \in {Absent, "", "u1"}, key \in {Absent, "", "k1", "wrong"}}
    \cup {ConfigFile("null", Config(Absent, Absent)),
          ConfigFile("array", Config(Absent, Absent))}

\* sor db create, sor db delete, sor migrate and sor sql with these arguments.
Commands ==
    {Command("dbCreate", "createDb", "", ObjectBody(name, Absent, Absent)) :
        name \in {"a", "_sor_x"}}
    \cup {Command("dbDelete", "deleteDb", "a", NoBody),
          Command("migrate", "migrate", "a", ObjectBody("m1", Absent, CREATE_T)),
          Command("sql", "sql", REGISTRY_DB, ObjectBody(Absent, Absent, DROP_DBS))}

\* The client runs one command after the other against the worker.
NextCli ==
    \/ \E file \in ConfigFiles : WriteConfigFile(file)
    \/ \E k \in {"url", "key"}, v \in {"", "u1", "k1"} : ConfigSet(k, v)
    \/ \E c \in Commands : ApiCall(c)
    \/ ApiReturn
    \/ \E r \in {1} :
          \/ Unauthorized(r)
          \/ FetchCreateDb(r)
          \/ FetchDeleteDb(r)
          \/ FetchSql(r)
          \/ FetchMigrate(r)
          \/ MigrateBegin(r)
          \/ MigrateFinish(r)
          \/ CatalogExists(r)
          \/ CreateDbInsert(r)
          \/ DeleteDbDelete(r)
          \/ SqlCall(r)

SpecCli == Init /\ [][NextCli]_vars

\* Texts sent to POST /db/_sor_registry/sql.
RegistryTexts == {DROP_DBS, CREATE_DBS_NAME_ONLY}

\* Requests to any route, the registry's own /db/_sor_registry/sql included,
\* one invocation after the other.
NextApi ==
    \E r \in {1} :
        \/ \E name \in {"a", "_sor_x"}, description \in DescriptionInputs :
              CreateDbRecv(r, name, description)
        \/ \E name \in {"a", "_sor_x"} : DeleteDbRecv(r, name)
        \/ ListDbsRecv(r)
        \/ ListDbsCall(r)
        \/ CatalogExists(r)
        \/ CreateDbInsert(r)
        \/ DeleteDbDelete(r)
        \/ MigrateBegin(r)
        \/ MigrateFinish(r)
        \/ \E text \in RegistryTexts : SqlRecv(r, REGISTRY_DB, text)
        \/ \E text \in {CREATE_T, INSERT_T} : SqlRecv(r, "a", text)
        \/ SqlCall(r)
        \/ SchemaRecv(r, "a")
        \/ SchemaCall(r)
        \/ SchemaDescribe(r)

SpecApi == Init /\ [][NextApi]_vars

----------------------------------------------------------------------------
(* Properties of Db.migrate                                                 *)

\* Invocation r takes a step (every action changes exactly one invocation).
StepOf(r) == reqs'[r] # reqs[r]

EngineMessages ==
    {"syntax error", "table already exists", "no such table", "no such column",
     "UNIQUE constraint failed"}

AlreadyApplied(q) == q.status = 400 /\ q.error = "Migration already applied"

\* C1 (as claimed). Idempotent migration: once migrate(name, sql1) returned
\* ok:true on a handle, every later migrate(name, sql2) on it returns
\* ok:false "Migration already applied", runs none of sql2 and leaves the
\* storage (ledger and schema) as it was.
C1_LaterMigrateAlreadyApplied ==
    [][\A r \in Slots :
          ( /\ reqs[r].pc = "migrate" /\ reqs[r].mig = 0
            /\ applied[reqs[r].db][reqs[r].name] > 0
            /\ StepOf(r) )
          => /\ reqs'[r].pc = "done"
             /\ AlreadyApplied(reqs'[r])
             /\ store'[reqs[r].db] = store[reqs[r].db]]_vars

\* migrate(name, text) called on storage s would throw inside its
\* transaction: at a statement of text, or at the ledger insert.
MigrationFails(s, name, text) ==
    LET ran == ExecAll(SqlBody(text), ensureMigrationsTable(s)) IN
    ~ran.ok \/ ~MigrateRecord(ran.st, name, text).ok

\* The tables of storage s other than the ledger.
UserTables(s) == [tb \in TableNames \ {MIGRATIONS_TABLE} |-> s[tb]]

\* C2. Atomicity under failure: when the SQL of a migrate(name, sql) call
\* fails at any statement, or the ledger insert fails, the call returns
\* ok:false (status 400) with the engine's message, and right after it the
\* ledger does not hold name, the ledger rows are those from before the call,
\* and every other table is as it was before the call.
C2_AtomicityUnderFailure ==
    [][\A r \in Slots :
          LET q == reqs[r]
              h == q.db
          IN  ( /\ q.pc = "inTxn" /\ q.mig = 0 /\ StepOf(r)
                /\ MigrationFails(txn[h].before, q.name, q.sql) )
              => /\ reqs'[r].pc = "done"
                 /\ reqs'[r].status = 400
                 /\ reqs'[r].error \in EngineMessages
                 /\ q.name \notin LedgerNames(store'[h])
                 /\ LedgerRows(store'[h]) = LedgerRows(txn[h].before)
                 /\ UserTables(store'[h]) = UserTables(txn[h].before)
                 /\ applied' = applied]_vars

\* C2 witness: a migration of several statements failed at its last one after
\* creating t, and t is gone again.
C2_Witness ==
    \E r \in Slots :
        /\ reqs[r].pc = "done" /\ reqs[r].route = "migrate"
        /\ reqs[r].sql = CREATE_T_THEN_FAIL
        /\ reqs[r].status = 400 /\ reqs[r].error = "UNIQUE constraint failed"
        /\ ~store["a"][USER_TABLE].exists
        /\ reqs[r].name \notin LedgerNames(store["a"])

\* C3 (as claimed). Ledger/schema consistency: between calls, a name is in
\* the ledger of a handle if and only if migrate applied that migration
\* (returned ok:true for it) on that handle.
C3_LedgerIffApplied ==
    \A h \in Handles :
        HandleIdle(h) => LedgerNames(store[h]) = {n \in AllMigNames : applied[h][n] > 0}

\* C4. No Db method of a handle (sql, migrate, listMigrations, getSchema)
\* runs on a storage that holds the uncommitted effects of another call's
\* migration: a migration's schema effects are never seen without its ledger
\* row.
C4_NoPartialMigrationObserved == ~sawOpenTxn

\* C4 witness: a migration's SQL has run inside its transaction, the ledger
\* row is not yet written, and another invocation is about to call the same
\* handle.
C4_Witness ==
    \E r1, r2 \in Slots :
        /\ r1 # r2
        /\ reqs[r1].pc = "inTxn" /\ reqs[r1].db = "a" /\ Dirty("a")
        /\ reqs[r1].name \notin LedgerNames(store["a"])
        /\ reqs[r2].pc \in {"call", "migrate"} /\ reqs[r2].db = "a"

\* SQL texts that succeed on every storage the requests of NextRace produce.
AlwaysValid(text) == text = CREATE_T_IF_NOT_EXISTS

\* C5. Exactly-once under concurrency: once a migrate request with valid SQL
\* has been answered, it got ok:true or "Migration already applied", the
\* migration has been applied exactly once on the handle, the ledger holds
\* exactly one row for the name, and no two answered requests for the name
\* both got ok:true.
C5_ExactlyOnce ==
    \A r \in Slots :
        LET q == reqs[r] IN
        ( q.pc = "done" /\ q.route = "migrate" /\ AlwaysValid(q.sql) )
        => /\ q.status = 200 \/ AlreadyApplied(q)
           /\ applied[q.db][q.name] = 1
           /\ Cardinality({row \in LedgerRows(store[q.db]) : row["name"] = q.name}) = 1
           /\ \A r2 \in Slots \ {r} :
                 ( /\ reqs[r2].pc = "done" /\ reqs[r2].route = "migrate"
                   /\ reqs[r2].db = q.db /\ reqs[r2].name = q.name
                   /\ reqs[r2].status = 200 )
                 => q.status # 200

\* C5 witness: two concurrent requests for the same name, both with valid SQL,
\* have been answered: one ok:true, one "Migration already applied".
C5_Witness ==
    \E r1, r2 \in Slots :
        /\ r1 # r2
        /\ reqs[r1].pc = "done" /\ reqs[r1].route = "migrate" /\ reqs[r1].status = 200
        /\ reqs[r2].pc = "done" /\ reqs[r2].route = "migrate" /\ AlreadyApplied(reqs[r2])
        /\ reqs[r1].name = reqs[r2].name
        /\ AlwaysValid(reqs[r1].sql) /\ AlwaysValid(reqs[r2].sql)

----------------------------------------------------------------------------
(* Properties of the catalog routes                                         *)

\* Invocation r, in flight on the given route, takes a step.
RouteStep(r, route) ==
    reqs[r].route = route /\ ~Free(r) /\ StepOf(r)

Answered(q, status, error) ==
    q.pc = "done" /\ q.status = status /\ q.error = error

\* The row POST /dbs stores for request q.
CatalogRowOf(q) ==
    [name |-> q.name, description |-> OrNull(q.description),
     created_at |-> CurrentTimestamp]

\* C6. Catalog create: a POST /dbs with a non-empty name without the
\* reserved prefix is answered 409 "Database already exists", the catalog
\* rows untouched, when its lookup finds the exact name in the catalog, and
\* goes on to the insert otherwise; the insert is answered 201 and the name
\* is then in the catalog, with the request's row when the name was not
\* there. No other step of the request changes a catalog row.
C6_CatalogCreate ==
    [][\A r \in Slots :
          LET q == reqs[r] IN
          RouteStep(r, "createDb")
          => /\ q.pc = "exists" =>
                   IF q.name \in CatalogNames
                   THEN /\ Answered(reqs'[r], 409, "Database already exists")
                        /\ reqs'[r].name = q.name
                   ELSE reqs'[r].pc = "write"
             /\ q.pc = "write" =>
                   /\ Answered(reqs'[r], 201, "")
                   /\ reqs'[r].name = q.name
                   /\ q.name \in CatalogNamesIn(store')
                   /\ q.name \notin CatalogNames =>
                         CatalogRowsIn(store') = CatalogRows \cup {CatalogRowOf(q)}
             /\ q.pc # "write" => CatalogRowsIn(store') = CatalogRows]_vars

\* C6 witness: "A" was created (201) while "a" was in the catalog, and a
\* second create of "a" was refused (409).
C6_Witness ==
    \E r1, r2 \in Slots :
        /\ reqs[r1].route = "createDb" /\ reqs[r1].name = "A"
        /\ Answered(reqs[r1], 201, "")
        /\ reqs[r2].route = "createDb" /\ reqs[r2].name = "a"
        /\ Answered(reqs[r2], 409, "Database already exists")
        /\ {"a", "A"} \subseteq CatalogNames

\* C7 (as claimed). Of the POST /dbs requests carrying one name, at most one
\* is answered 201.
C7_AtMostOneCreated ==
    \A r1, r2 \in Slots :
        ( /\ r1 # r2
          /\ reqs[r1].route = "createDb" /\ reqs[r2].route = "createDb"
          /\ reqs[r1].pc = "done" /\ reqs[r2].pc = "done"
          /\ reqs[r1].name = reqs[r2].name )
        => ~(reqs[r1].status = 201 /\ reqs[r2].status = 201)

\* C8 (as claimed). When POST /dbs answers 201, the catalog holds a row for
\* the name right after the request.
C8_CreatedIsInCatalog ==
    [][\A r \in Slots :
          ( RouteStep(r, "createDb") /\ reqs'[r].pc = "done" /\ reqs'[r].status = 201 )
          => reqs'[r].name \in CatalogNamesIn(store')]_vars

\* C9. Catalog delete: a DELETE /dbs/:name for a name without the reserved
\* prefix is answered 404 "Database not found", the catalog rows untouched,
\* when its lookup does not find the name, and goes on to the removal
\* otherwise; the removal is answered 200 and takes away the rows of that
\* name and no other row. No other step of the request changes a catalog row.
C9_CatalogDelete ==
    [][\A r \in Slots :
          LET q == reqs[r] IN
          RouteStep(r, "deleteDb")
          => /\ q.pc = "exists" =>
                   IF q.name \in CatalogNames
                   THEN reqs'[r].pc = "write"
                   ELSE /\ Answered(reqs'[r], 404, "Database not found")
                        /\ reqs'[r].name = q.name
             /\ q.pc = "write" =>
                   /\ Answered(reqs'[r], 200, "")
                   /\ reqs'[r].name = q.name
                   /\ CatalogRowsIn(store') = {row \in CatalogRows : row["name"] # q.name}
             /\ q.pc # "write" => CatalogRowsIn(store') = CatalogRows]_vars

\* C9 witness: "a" was deleted (200) and is gone, "A" is still in the catalog.
C9_Witness ==
    \E r \in Slots :
        /\ reqs[r].route = "deleteDb" /\ reqs[r].name = "a"
        /\ Answered(reqs[r], 200, "")
        /\ "a" \notin CatalogNames /\ "A" \in CatalogNames

\* C10. DELETE /dbs/:name (and POST /dbs) change the registry only: no step
\* of such a request changes the storage (tables, rows, ledger) of any other
\* database, nor which migrations count as applied there; and a migrate
\* carrying the name of a migration applied earlier, whatever catalog
\* requests came in between, is answered "Migration already applied" and
\* leaves the storage as it was.
C10_DeleteKeepsStorage ==
    [][\A r \in Slots :
          /\ ( RouteStep(r, "deleteDb") \/ RouteStep(r, "createDb") )
             => \A h \in Handles \ {REGISTRY_DB} :
                   store'[h] = store[h] /\ applied'[h] = applied[h]
          /\ ( /\ RouteStep(r, "migrate") /\ reqs[r].pc = "migrate"
               /\ applied[reqs[r].db][reqs[r].name] > 0 )
             => /\ reqs'[r].pc = "done" /\ AlreadyApplied(reqs'[r])
                /\ store'[reqs[r].db] = store[reqs[r].db]]_vars

\* C10 witness: "a" was deleted (200) and then created again (201), neither
\* invocation has done anything since, and the storage of "a" still holds
\* the row inserted into t and the ledger row of m1 from before the delete.
C10_Witness ==
    \E r1, r2 \in Slots :
        /\ reqs[r1].route = "deleteDb" /\ reqs[r1].name = "a"
        /\ Answered(reqs[r1], 200, "")
        /\ reqs[r2].route = "createDb" /\ reqs[r2].name = "a"
        /\ Answered(reqs[r2], 201, "")
        /\ "a" \in CatalogNames
        /\ store["a"][USER_TABLE].rows # {}
        /\ "m1" \in LedgerNames(store["a"])
        /\ applied["a"]["m1"] > 0

----------------------------------------------------------------------------
(* Requests as they arrive: bodies and path segments                        *)

\* The key the callers of these specifications send: the initial secret.
RightKey == "k1"

\* Bodies of POST /dbs: a name that is absent, empty, a number, blank, plain
\* or reserved; and the body null.
CreateDbBodies ==
    {ObjectBody(name, Absent, Absent) :
        name \in {Absent, "", JsonNumber, " ", "a", "_sor_x"}} \cup {NullBody}

\* The :name segments of DELETE /dbs/:name.
DeleteSegments == {"a", "%61", "_sor_x", "%5Fsor_x", "%"}

SqlBodies ==
    {ObjectBody(Absent, Absent, text) : text \in {Absent, "", JsonNumber, CREATE_T, INSERT_T}}
        \cup {NullBody}

MigrateBodies ==
    {ObjectBody(name, Absent, text) :
        name \in {Absent, "", "m1"}, text \in {Absent, JsonNumber, CREATE_T_IF_NOT_EXISTS}}

InputRequests ==
    {Request("createDb", RightKey, "", body) : body \in CreateDbBodies}
        \cup {Request("deleteDb", RightKey, seg, NoBody) : seg \in DeleteSegments}
        \cup {Request("sql", RightKey, "a", body) : body \in SqlBodies}
        \cup {Request("migrate", RightKey, "%61", body) : body \in MigrateBodies}

\* Authenticated requests with any of these bodies and segments, one
\* invocation after the other.
NextInput ==
    \E r \in {1} :
        \/ \E req \in InputRequests : Arrive(r, req)
        \/ FetchCreateDb(r)
        \/ FetchDeleteDb(r)
        \/ FetchSql(r)
        \/ FetchMigrate(r)
        \/ MigrateBegin(r)
        \/ MigrateFinish(r)
        \/ CatalogExists(r)
        \/ CreateDbInsert(r)
        \/ DeleteDbDelete(r)
        \/ SqlCall(r)

SpecInput == Init /\ [][NextInput]_vars

----------------------------------------------------------------------------
(* Properties of the reserved prefix and of names                           *)

\* fetch runs for the request that arrived for slot r.
FetchStep(r, route) ==
    Pending(r) /\ inbox[r].route = route /\ StepOf(r)

\* The names with the reserved prefix that the requests carry, as sent in a
\* body and as sent in a path.
ReservedNames == {"_sor_x", REGISTRY_DB}

ReservedSegments == {"_sor_x", "%5Fsor_x", REGISTRY_DB}

\* C11. Reserved prefix on the catalog routes: a POST /dbs whose name starts
\* with "_sor_" is answered 400 "Database name cannot start with _sor_" and a
\* DELETE /dbs/:name whose decoded name starts with "_sor_" is answered 400
\* "Cannot delete system database", no storage touched; a request with any
\* other non-empty string name goes on to the registry under that (decoded)
\* name and ends with 201 or 409, respectively 200 or 404.
C11_ReservedPrefix ==
    [][\A r \in Slots :
          LET req == inbox[r] IN
          /\ ( FetchStep(r, "createDb") /\ req.body.name \in ReservedNames )
             => /\ Answered(reqs'[r], 400, "Database name cannot start with _sor_")
                /\ store' = store
          /\ ( FetchStep(r, "deleteDb") /\ req.seg \in ReservedSegments )
             => /\ Answered(reqs'[r], 400, "Cannot delete system database")
                /\ store' = store
          /\ ( FetchStep(r, "createDb") /\ req.body.name \in {" ", "a"} )
             => /\ reqs'[r].pc = "migrate" /\ reqs'[r].name = req.body.name
          /\ ( FetchStep(r, "deleteDb") /\ req.seg \in {"a", "%61"} )
             => /\ reqs'[r].pc = "migrate" /\ reqs'[r].name = "a"
          /\ ( reqs[r].pc = "done" /\ reqs[r].route = "createDb"
               /\ req.body.name \in {" ", "a"} )
             => reqs[r].status \in {201, 409}
          /\ ( reqs[r].pc = "done" /\ reqs[r].route = "deleteDb"
               /\ req.seg \in {"a", "%61"} )
             => reqs[r].status \in {200, 404}]_vars

\* C11 witness: with "a" in the catalog, DELETE /dbs/%5Fsor_x was refused.
C11_Witness ==
    \E r \in Slots :
        /\ inbox[r].route = "deleteDb" /\ inbox[r].seg = "%5Fsor_x"
        /\ Answered(reqs[r], 400, "Cannot delete system database")
        /\ "a" \in CatalogNames

----------------------------------------------------------------------------
(* Caller SQL on any name, the registry's included                          *)

TamperTexts == {CREATE_T, INSERT_T, INSERT_DBS_RESERVED, RESHAPE_LEDGER}

\* Every /db/:db route on "a", POST /db/:db/sql on the registry's own name
\* as well, and POST /dbs; one invocation after the other.
NextTamper ==
    \E r \in {1} :
        \/ CreateDbRecv(r, "a", Absent)
        \/ \E db \in {"a", REGISTRY_DB}, text \in TamperTexts : SqlRecv(r, db, text)
        \/ \E text \in {CREATE_T, INSERT_DBS_RESERVED} : MigrateRecv(r, "a", "m1", text)
        \/ MigrationsRecv(r, "a")
        \/ SchemaRecv(r, "a")
        \/ SqlCall(r)
        \/ MigrateBegin(r)
        \/ MigrateFinish(r)
        \/ MigrationsCall(r)
        \/ SchemaCall(r)
        \/ SchemaDescribe(r)
        \/ CatalogExists(r)
        \/ CreateDbInsert(r)

SpecTamper == Init /\ [][NextTamper]_vars

\* C12 (as claimed). The catalog never holds a row whose name starts with
\* the reserved prefix "_sor_".
C12_NoReservedCatalogRow ==
    CatalogNames \cap ReservedNames = {}

DbRoutes == {"sql", "migrate", "migrations", "schema"}

\* C13. The /db/:db routes directed at a name without the reserved prefix
\* leave the rows of the catalog as they are, at every step, whether or not
\* the name is in the catalog.
C13_DbRoutesKeepCatalog ==
    [][\A r \in Slots :
          ( /\ reqs[r].route \in DbRoutes /\ ~Free(r) /\ StepOf(r)
            /\ reqs[r].db \notin ReservedNames )
          => CatalogRowsIn(store') = CatalogRows]_vars

\* C13 witness: a migrate on "a" succeeded while "a" was not in the catalog,
\* which holds another row.
C13_Witness ==
    \E r \in Slots :
        /\ reqs[r].route = "migrate" /\ reqs[r].db = "a"
        /\ Answered(reqs[r], 200, "")
        /\ store["a"][USER_TABLE].exists
        /\ CatalogNames # {} /\ "a" \notin CatalogNames

\* C18 (as claimed). An engine error raised while serving a /db/:db route
\* is answered with status 400 and the engine's message, never 500.
C18_EngineErrorsAre400 ==
    \A r \in Slots :
        ( /\ reqs[r].route \in DbRoutes /\ reqs[r].pc = "done"
          /\ reqs[r].error \in EngineMessages )
        => reqs[r].status = 400

----------------------------------------------------------------------------
(* Two databases                                                            *)

\* The :db segments sent, plain and escaped.
DbSegments == {"a", "%61", "b", "%62"}

NameRequests ==
    {Request("sql", RightKey, seg, ObjectBody(Absent, Absent, text)) :
        seg \in DbSegments, text \in {CREATE_T, INSERT_T, SELECT_T}}
      \cup {Request("migrate", RightKey, seg, ObjectBody("m1", Absent, CREATE_T_IF_NOT_EXISTS)) :
              seg \in {"a", "b"}}
      \cup {Request("createDb", RightKey, "", ObjectBody(name, Absent, Absent)) :
              name \in {"a", "b"}}
      \cup {Request("deleteDb", RightKey, "%61", NoBody)}

\* sql and migrate requests to the databases "a" and "b", creation of both
\* and deletion of "a", one invocation after the other.
NextNames ==
    \E r \in {1} :
        \/ \E req \in NameRequests : Arrive(r, req)
        \/ FetchSql(r)
        \/ FetchMigrate(r)
        \/ FetchCreateDb(r)
        \/ FetchDeleteDb(r)
        \/ SqlCall(r)
        \/ MigrateBegin(r)
        \/ MigrateFinish(r)
        \/ CatalogExists(r)
        \/ CreateDbInsert(r)
        \/ DeleteDbDelete(r)

SpecNames == Init /\ [][NextNames]_vars

\* The database a segment of DbSegments names.
NamedBy(seg) == IF seg \in {"a", "%61"} THEN "a" ELSE "b"

\* C14. Name isolation: a sql or migrate request addresses the storage of
\* its decoded name and no step of it changes the storage or the applied
\* migrations of any other name; the rows a sql request returns are those
\* of the storage of its decoded name; and no step of DELETE /dbs/:name
\* changes the storage of a database or the catalog row of another name.
C14_NameIsolation ==
    [][\A r \in Slots :
          LET q == reqs[r]
              target == NamedBy(inbox[r].seg)
          IN  /\ ( /\ inbox[r].route \in {"sql", "migrate"}
                    /\ StepOf(r) /\ reqs[r].pc # "done" )
                 => /\ \A h \in Handles \ {target} :
                          store'[h] = store[h] /\ applied'[h] = applied[h]
                    /\ reqs'[r].pc # "done" => reqs'[r].db = target
                    /\ ( q.route = "sql" /\ q.pc = "call" )
                       => reqs'[r].rows = DbSql(store[target], q.sql, <<>>).rows
              /\ RouteStep(r, "deleteDb")
                 => /\ \A h \in Handles \ {REGISTRY_DB} :
                          store'[h] = store[h] /\ applied'[h] = applied[h]
                    /\ {row \in CatalogRowsIn(store') : row["name"] # q.name}
                          = {row \in CatalogRows : row["name"] # q.name}]_vars

\* C14 witness: a row was inserted through /db/%61/sql; it is in the table t
\* of "a", and the table t of "b" exists and is empty.
C14_Witness ==
    \E r \in Slots :
        /\ inbox[r].route = "sql" /\ inbox[r].seg = "%61"
        /\ Answered(reqs[r], 200, "")
        /\ store["a"][USER_TABLE].rows # {}
        /\ store["b"][USER_TABLE].exists /\ store["b"][USER_TABLE].rows = {}

----------------------------------------------------------------------------
(* The auth check and the studio route                                      *)

\* The X-API-Key headers sent: the initial secret, a value that is never the
\* secret, and no header.
KeyInputs == {RightKey, "wrong", Absent}

GateRequests ==
    {Request("studio", Absent, db, NoBody) : db \in {"", "a"}}
      \cup {Request("createDb", key, "", ObjectBody("a", Absent, Absent)) : key \in KeyInputs}
      \cup {Request("sql", key, "a", ObjectBody(Absent, Absent, CREATE_T)) : key \in KeyInputs}

\* Requests with and without a valid key, up to MaxInFlight at a time, and
\* replacement of the secret.
NextGate ==
    \/ \E secret \in Secrets : SecretPut(secret)
    \/ \E r \in Slots :
        \/ \E req \in GateRequests : Arrive(r, req)
        \/ Studio(r)
        \/ Unauthorized(r)
        \/ FetchCreateDb(r)
        \/ FetchSql(r)
        \/ MigrateBegin(r)
        \/ MigrateFinish(r)
        \/ CatalogExists(r)
        \/ CreateDbInsert(r)
        \/ SqlCall(r)

SpecGate == Init /\ [][NextGate]_vars

\* C15. Authentication gate: fetch answers a request to a path other than
\* the studio route whose X-API-Key is absent or differs from the secret
\* with 401 "Unauthorized", having read neither path nor body, and changes
\* no storage, transaction or applied migration.
C15_AuthGate ==
    [][\A r \in Slots :
          ( /\ Pending(r) /\ StepOf(r)
            /\ inbox[r].route # "studio"
            /\ inbox[r].key # env.SOR_API_KEY )
          => /\ reqs'[r] = Early(inbox[r].route, 401, "Unauthorized", {})
             /\ UNCHANGED <<store, txn, applied>>]_vars

\* C15 witness: with "a" in the catalog and a table in the database "a", a
\* POST /db/a/sql without the header was answered 401.
C15_Witness ==
    \E r \in Slots :
        /\ inbox[r].route = "sql" /\ inbox[r].key = Absent
        /\ Answered(reqs[r], 401, "Unauthorized")
        /\ "a" \in CatalogNames
        /\ store["a"][USER_TABLE].exists

\* C16 (as claimed). The responses to two equal requests whose key is valid
\* under no secret are equal, whatever the secret and the stored data were
\* when each was served.
C16_UnauthenticatedResponseFixed ==
    \A r1, r2 \in Slots :
        ( /\ inbox[r1] = inbox[r2]
          /\ inbox[r1].key \notin Secrets
          /\ reqs[r1].pc = "done" /\ reqs[r2].pc = "done" )
        => reqs[r1] = reqs[r2]

----------------------------------------------------------------------------
(* The registry bootstrap                                                   *)

\* C17. Bootstrap idempotence: no step of ensureRegistry ends the enclosing
\* request or leaves an error in it; the request goes on to its own query;
\* and once the system migrations were applied, a further bootstrap leaves
\* the registry's storage (schema and ledger) as it is and applies nothing
\* a second time.
C17_BootstrapIdempotent ==
    [][\A r \in Slots :
          ( reqs[r].mig > 0 /\ StepOf(r) )
          => /\ reqs'[r].pc # "done"
             /\ reqs'[r].mig = 0
                => /\ reqs'[r].pc = AfterBootstrap(reqs[r].route)
                   /\ reqs'[r].error = "" /\ ~reqs'[r].failed
             /\ \A i \in 1..Len(SYSTEM_MIGRATIONS) :
                   /\ applied[REGISTRY_DB][SYSTEM_MIGRATIONS[i].name] <= 1
                   /\ ( reqs[r].mig = i
                        /\ applied[REGISTRY_DB][SYSTEM_MIGRATIONS[i].name] > 0 )
                      => /\ store'[REGISTRY_DB] = store[REGISTRY_DB]
                         /\ applied' = applied]_vars

\* C17 witness: two requests ran the bootstrap, the second on the
\* bootstrapped registry, and both got their route's own answer.
C17_Witness ==
    \E r1, r2 \in Slots :
        /\ reqs[r1].route = "createDb" /\ Answered(reqs[r1], 201, "")
        /\ reqs[r2].route = "deleteDb" /\ Answered(reqs[r2], 404, "Database not found")
        /\ store[REGISTRY_DB][DBS_TABLE].exists
        /\ LedgerNames(store[REGISTRY_DB]) = {SYSTEM_MIGRATIONS[1].name}
        /\ applied[REGISTRY_DB][SYSTEM_MIGRATIONS[1].name] = 1

----------------------------------------------------------------------------
(* Validation of bodies                                                     *)

\* The values of a body field that are no non-empty string.
NoStrings == {Absent, "", JsonNull, JsonNumber}

\* C19 (as claimed). POST /dbs with a body that has no name field, or whose
\* name is empty or not a string, is answered 400 "name is required" and
\* stores nothing; a blank or plain name is accepted.
C19_NameValidation ==
    [][\A r \in Slots :
          LET body == inbox[r].body IN
          FetchStep(r, "createDb")
          => /\ body.name \in NoStrings
                => /\ Answered(reqs'[r], 400, "name is required")
                   /\ store' = store
             /\ body.name \in {" ", "a"}
                => reqs'[r].pc = "migrate" /\ reqs'[r].name = body.name]_vars

\* C20. Validation before storage: fetch answers a POST /db/:db/sql whose
\* body object has no sql, an empty one or one that is no string with 400
\* "sql is required", and a POST /db/:db/migrate with such a name with 400
\* "name is required", else with such a sql with 400 "sql is required"; and
\* a request with such a field, the body null included, changes no storage,
\* opens no transaction, applies nothing and reaches no Durable Object.
C20_ValidationBeforeStorage ==
    [][\A r \in Slots :
          LET body == inbox[r].body
              object == body.kind = "object"
          IN  /\ ( FetchStep(r, "sql") /\ body.sql \in NoStrings )
                 => /\ object => Answered(reqs'[r], 400, "sql is required")
                    /\ reqs'[r].pc = "done"
                    /\ UNCHANGED <<store, txn, applied, sawOpenTxn>>
              /\ ( FetchStep(r, "migrate") /\ body.name \in NoStrings )
                 => /\ object => Answered(reqs'[r], 400, "name is required")
                    /\ reqs'[r].pc = "done"
                    /\ UNCHANGED <<store, txn, applied, sawOpenTxn>>
              /\ ( /\ FetchStep(r, "migrate")
                   /\ body.name \notin NoStrings /\ body.sql \in NoStrings )
                 => /\ object => Answered(reqs'[r], 400, "sql is required")
                    /\ reqs'[r].pc = "done"
                    /\ UNCHANGED <<store, txn, applied, sawOpenTxn>>]_vars

\* C20 witness: the database "a" has a table, and a migrate with neither
\* name nor sql was answered "name is required".
C20_Witness ==
    \E r \in Slots :
        /\ inbox[r].route = "migrate"
        /\ inbox[r].body.name = Absent /\ inbox[r].body.sql = Absent
        /\ Answered(reqs[r], 400, "name is required")
        /\ store["a"][USER_TABLE].exists

----------------------------------------------------------------------------
(* Order of the listings *)

\* The array a listing holds: element i of seq at index i, and nothing else.
Lists(rows, seq) ==
    /\ Cardinality(rows) = Len(seq)
    /\ \A i \in 1..Len(seq) : [pos |-> i, row |-> seq[i]] \in rows

\* What listMigrations returns on storage s.
LedgerListing(s) ==
    LET sorted == OrderBy(s[MIGRATIONS_TABLE].ord, "applied_at")
    IN  [i \in 1..Len(sorted) |->
            [name |-> sorted[i]["name"], applied_at |-> sorted[i]["applied_at"]]]

CatalogListing(s) == OrderBy(s[DBS_TABLE].ord, "created_at")

C23_ListDbsAlwaysLists ==
    [][\A r \in Slots :
          (RouteStep(r, "listDbs") /\ reqs'[r].pc = "done")
              => /\ reqs'[r].status = 200
                 /\ ~reqs'[r].failed
                 /\ Lists(reqs'[r].rows, CatalogListing(store[REGISTRY_DB]))]_vars

----------------------------------------------------------------------------
(* The ledger's creation *)

\* C24 (as claimed). The creation of the ledger is not observable: on a
\* handle whose storage holds nothing but the empty ledger that a
\* listMigrations or a failed migrate left, a sql request and a getSchema
\* request are answered as on the storage without the ledger; and
\* listMigrations on a storage without the ledger is answered 200 with the
\* empty sequence.
C24_LedgerCreationUnobservable ==
    [][\A r \in Slots :
          LET q == reqs[r]
              s == store["a"]
              fresh == s = ensureMigrationsTable(EmptyStorage)
              onBare == DbSql(EmptyStorage, q.sql, <<>>)
          IN  /\ (RouteStep(r, "sql") /\ q.pc = "call" /\ fresh)
                    => /\ reqs'[r].status = IF onBare.ok THEN 200 ELSE 400
                       /\ reqs'[r].error = onBare.error
                       /\ reqs'[r].rows = onBare.rows
              /\ (RouteStep(r, "schema") /\ q.pc = "call" /\ fresh)
                    => reqs'[r].rows = getSchema(EmptyStorage).rows
              /\ (RouteStep(r, "migrations") /\ q.pc = "call" /\ s = EmptyStorage)
                    => /\ Answered(reqs'[r], 200, "")
                       /\ reqs'[r].rows = {}]_vars

----------------------------------------------------------------------------
(* Bound parameters *)

\* The tables of every storage: which exist, with which columns and key.
Tables(st) ==
    [h \in Handles |-> [tb \in TableNames |->
        [exists |-> st[h][tb].exists, cols |-> st[h][tb].cols, pk |-> st[h][tb].pk]]]

\* C25. Injection safety: the value in params of INSERT INTO t (v) VALUES (?)
\* is stored as the value of the row, equal to what was sent, also when it
\* carries SQL syntax, and the value sent as the name to POST /dbs is stored
\* as the name of the catalog row; neither step creates, drops or alters a
\* table; and a later SELECT or GET /dbs answers with the stored rows.
C25_ParamsAreBound ==
    [][\A r \in Slots :
          LET q == reqs[r]
              params == inbox[r].body.params
              t == store["a"][USER_TABLE]
          IN  /\ (RouteStep(r, "sql") /\ q.pc = "call" /\ q.sql = INSERT_T_BOUND
                    /\ Len(params) = 1 /\ t.exists)
                    => /\ Tables(store') = Tables(store)
                       /\ \A v \in Values :
                             params = <<v>>
                                => IF [v |-> v] \in t.rows
                                   THEN /\ Answered(reqs'[r], 400, "UNIQUE constraint failed")
                                        /\ store' = store
                                   ELSE /\ Answered(reqs'[r], 200, "")
                                        /\ store'["a"][USER_TABLE].rows = t.rows \cup {[v |-> v]}
              /\ (RouteStep(r, "sql") /\ q.pc = "call" /\ q.sql = SELECT_T /\ t.exists)
                    => /\ Answered(reqs'[r], 200, "")
                       /\ reqs'[r].rows = t.rows
              /\ (RouteStep(r, "createDb") /\ q.pc \in {"exists", "write"})
                    => /\ Tables(store') = Tables(store)
                       /\ Answered(reqs'[r], 201, "")
                             => CatalogRowsIn(store') = CatalogRows \cup {CatalogRowOf(q)}]_vars

\* The value with SQL syntax was sent as a parameter and as a database name,
\* and both are read back as sent: the SELECT answers with the row holding
\* it, and the catalog holds the name.
C25_Witness ==
    \E r \in Slots :
        /\ reqs[r].route = "sql" /\ reqs[r].pc = "done" /\ reqs[r].status = 200
        /\ inbox[r].body.sql = SELECT_T
        /\ [v |-> INJECTION] \in reqs[r].rows
        /\ INJECTION \in CatalogNames

----------------------------------------------------------------------------
(* Precedence of the responses *)

\* C26 (as claimed). Response precedence of the router: a request without
\* the key is answered 401 before anything else; an authenticated request
\* to a method and path that no route matches is answered 404 "Not found"
\* whatever its body; an authenticated request to a matching route with a
\* body that is not valid JSON is answered 500; and every other request is
\* answered by validation or by the operation, with one of 200, 201, 400,
\* 404 and 409.
C26_ResponsePrecedence ==
    [][\A r \in Slots :
          LET req == inbox[r]
              answer == reqs'[r]
          IN  /\ (Pending(r) /\ StepOf(r))
                    => IF req.key # env.SOR_API_KEY
                       THEN Answered(answer, 401, "Unauthorized")
                       ELSE IF req.route = "unknown"
                       THEN Answered(answer, 404, "Not found")
                       ELSE IF req.body.kind = "invalid"
                       THEN answer.pc = "done" /\ answer.status = 500
                       ELSE TRUE
              /\ ( /\ StepOf(r) /\ answer.pc = "done" /\ reqs[r].pc # "done"
                    /\ req.key = env.SOR_API_KEY
                    /\ req.route # "unknown" /\ req.body.kind # "invalid" )
                    => answer.status \in {200, 201, 400, 404, 409}]_vars

----------------------------------------------------------------------------
(* The command line client *)

\* C27 (as claimed). config set changes only the named key: after
\* sor config set k v the saved config has k = v and the other key keeps the
\* value it had (absent stays absent), whatever valid JSON the config file
\* held before.
C27_ConfigSetFrame ==
    [][\A k \in {"url", "key"}, v \in {"", "u1", "k1"} :
          (cli' # cli /\ cli'.cmd = "configSet" /\ cli'.args = <<k, v>>)
              => LET other == IF k = "url" THEN "key" ELSE "url"
                     before == IF cli.file.kind = "missing"
                               THEN Config(Absent, Absent) ELSE cli.file.obj
                 IN  /\ ~cli'.failed
                     /\ cli'.file.kind = "object"
                     /\ cli'.file.obj[k] = v
                     /\ cli'.file.obj[other] = before[other]]_vars

\* The lines the commands log on success, for the names sent.
SuccessMessages ==
    {"Created database: a", "Created database: _sor_x", "Deleted database: a",
     "Applied migration: m1", "rows"}

\* C28. Whenever the worker answers the request of a command with a status
\* that is not 2xx, the command fails with the error of the response and
\* logs no success message.
C28_NonOkResponseFails ==
    [][(cli.phase = "waiting" /\ cli'.phase = "done"
          /\ reqs[1].status \notin 200..299)
          => /\ cli'.failed
             /\ cli'.msg = reqs[1].error
             /\ cli'.msg \notin SuccessMessages]_vars

\* sor db create a was answered 409 and failed with the worker's error.
C28_Witness ==
    /\ cli.phase = "done" /\ cli.cmd = "dbCreate"
    /\ reqs[1].pc = "done" /\ reqs[1].status = 409
    /\ cli.failed /\ cli.msg = "Database already exists"

\* C29. With url or key absent or empty in the config, a command that
\* calls the API fails with "Configuration missing: " followed by exactly
\* the missing keys, url before key, and sends no HTTP request.
C29_MissingConfiguration ==
    [][\A url \in {Absent, "", "u1"}, key \in {Absent, "", "k1", "wrong"} :
          ( /\ cli' # cli
            /\ cli'.cmd \in {"dbCreate", "dbDelete", "migrate", "sql"}
            /\ cli.phase # "waiting"
            /\ cli.file.kind \in {"missing", "object", "array"}
            /\ cli.file.obj = Config(url, key)
            /\ (url \in {Absent, ""} \/ key \in {Absent, ""}) )
          => /\ cli'.phase = "done" /\ cli'.failed /\ cli'.sent = 0
             /\ cli'.msg = ( IF url \in {Absent, ""} /\ key \in {Absent, ""}
                               THEN "Configuration missing: url, key"
                             ELSE IF url \in {Absent, ""}
                               THEN "Configuration missing: url"
                             ELSE "Configuration missing: key" )
             /\ UNCHANGED <<reqs, inbox, store>>]_vars

\* The worker holds a database from an earlier command, the config has its
\* key but no url, and sor db delete failed naming url, without a request.
C29_Witness ==
    /\ cli.phase = "done" /\ cli.cmd = "dbDelete" /\ cli.sent = 0
    /\ cli.file = ConfigFile("object", Config(Absent, "k1"))
    /\ cli.failed /\ cli.msg = "Configuration missing: url"
    /\ "a" \in CatalogNames

----------------------------------------------------------------------------
(* Bootstrap of the registry *)

\* Where an invocation stands when its next call is a statement on dbs.
CatalogPcs == {"exists", "write", "list", "describe"}

\* C30. Bootstrap precedes every registry-scoped operation: an invocation
\* of POST /dbs, GET /dbs, DELETE /dbs/:name or GET /db/:name/schema comes
\* to its first statement on dbs only by the return of Db.migrate for the
\* last system migration; it goes through the system migrations from the
\* first, one by one in list order; each of those calls works on the
\* storage of _sor_registry only and records no other name than its own in
\* the ledger; and the rows of dbs change only at a catalog statement.
C30_BootstrapFirst ==
    [][\A r \in Slots :
          LET q == reqs[r]
              after == reqs'[r]
              last == Len(SYSTEM_MIGRATIONS)
          IN  StepOf(r) =>
                /\ (after.pc \in CatalogPcs /\ q.pc \notin CatalogPcs)
                      => /\ q.pc \in {"migrate", "inTxn"}
                         /\ q.mig = last
                /\ (after.pc \in {"migrate", "inTxn"} /\ after.mig > 0)
                      => \/ q.mig = 0 /\ after.mig = 1 /\ q.pc \notin CatalogPcs
                         \/ after.mig = q.mig
                         \/ after.mig = q.mig + 1 /\ after.mig <= last
                /\ q.mig > 0
                      => /\ \A h \in Handles \ {REGISTRY_DB} : store'[h] = store[h]
                         /\ LedgerNames(store'[REGISTRY_DB])
                               \subseteq LedgerNames(store[REGISTRY_DB])
                                            \cup {SYSTEM_MIGRATIONS[q.mig].name}
                /\ (q.route \in {"createDb", "deleteDb", "listDbs", "schema"}
                      /\ CatalogRowsIn(store') # CatalogRows)
                      => q.pc \in CatalogPcs]_vars

\* A schema request has read the schema of "a", the system migration is in
\* the registry's ledger, dbs holds "a", and the description lookup is next.
C30_Witness ==
    \E r \in Slots :
        /\ reqs[r].route = "schema" /\ reqs[r].pc = "describe"
        /\ SYSTEM_MIGRATIONS[1].name \in LedgerNames(store[REGISTRY_DB])
        /\ "a" \in CatalogNames

\* C31. Concurrent bootstrap is safe: with several POST /dbs invocations
\* running ensureRegistry on a fresh registry at once, every system
\* migration is applied at most once and exactly once for an invocation
\* that is past its bootstrap, the registry's ledger holds one row for it
\* then and never a row of another name, and no invocation is ended or
\* left with an error by the bootstrap.
C31_ConcurrentBootstrapSafe ==
    \A i \in 1..Len(SYSTEM_MIGRATIONS) :
        LET n == SYSTEM_MIGRATIONS[i].name
            recorded == {row \in LedgerRows(store[REGISTRY_DB]) : row["name"] = n}
        IN  /\ applied[REGISTRY_DB][n] <= 1
            /\ Cardinality(recorded) = applied[REGISTRY_DB][n]
            /\ LedgerNames(store[REGISTRY_DB]) \subseteq {n}
            /\ \A r \in Slots :
                  /\ reqs[r].pc \in {"exists", "write", "done"}
                        => /\ applied[REGISTRY_DB][n] = 1
                           /\ store[REGISTRY_DB][DBS_TABLE].exists
                  /\ reqs[r].pc \in {"exists", "write"}
                        => reqs[r].error = "" /\ ~reqs[r].failed
                  /\ reqs[r].pc = "done" => reqs[r].status \in {201, 409}

\* Two invocations are in the bootstrap of the fresh registry at once: one
\* inside migrate's transaction, the other about to call migrate.
C31_Witness ==
    \E r1, r2 \in Slots :
        /\ reqs[r1].mig = 1 /\ reqs[r1].pc = "inTxn"
        /\ reqs[r2].mig = 1 /\ reqs[r2].pc = "migrate"
        /\ applied[REGISTRY_DB][SYSTEM_MIGRATIONS[1].name] = 0

----------------------------------------------------------------------------
(* System migrations over deployments. *)

\* The catalog routes on a registry whose script is replaced by the later
\* version at some point, up to MaxInFlight invocations at a time.
NextUpgrade ==
    \/ \E r \in Slots :
          \/ \E name \in {"a", "b"} : CreateDbRecv(r, name, Absent)
          \/ CatalogExists(r)
          \/ CreateDbInsert(r)
          \/ MigrateBegin(r)
          \/ MigrateFinish(r)
          \/ ListDbsRecv(r)
          \/ ListDbsCall(r)
    \/ Deploy(LATER_SYSTEM_MIGRATIONS)

SpecUpgrade == Init /\ [][NextUpgrade]_vars

\* C32: the system migrations recorded in the registry ledger form a prefix
\* of the deployed list: entry k is recorded only if every entry before it
\* is recorded, in every reachable state.
C32_RecordedIsPrefix ==
    LET list == env.SYSTEM_MIGRATIONS
        recorded == LedgerNames(store[REGISTRY_DB])
    IN  \A k \in 1..Len(list) :
            list[k].name \in recorded
                => \A j \in 1..(k - 1) : list[j].name \in recorded

----------------------------------------------------------------------------
(* Concurrent DELETE /dbs/:name. *)

\* C33: of the DELETE /dbs/:name requests in flight for a catalogued name,
\* one is answered 200 and every other one 404 "Database not found": the
\* request answered 200 is the one whose DELETE removed the row, so the name
\* is in the catalog when the answer is made.
C33_OneDeleteSucceeds ==
    [][\A r \in Slots :
          ( /\ RouteStep(r, "deleteDb")
            /\ reqs'[r].pc = "done"
            /\ reqs'[r].status = 200 )
          => reqs[r].name \in CatalogNames]_vars

----------------------------------------------------------------------------
(* The outcome of POST /db/:name/migrate. *)

\* C34: a migrate call whose name is in the ledger when it runs is answered
\* 400 "Migration already applied" and runs none of its SQL; any other call
\* runs its SQL once, and is answered 200 exactly when it inserted the
\* ledger row for its name, the storage then being that of one execution of
\* the SQL plus the row, and 400 with the engine's message otherwise, the
\* storage then being as it was.
C34_MigrateOutcome ==
    [][\A r \in Slots :
          LET q == reqs[r]
              after == reqs'[r]
              h == q.db
          IN  /\ ( q.route = "migrate" /\ q.pc = "migrate" /\ StepOf(r) )
                    => IF q.name \in LedgerNames(store[h])
                       THEN /\ Answered(after, 400, "Migration already applied")
                            /\ store'[h] = store[h]
                       ELSE after.pc = "inTxn"
              /\ ( q.route = "migrate" /\ q.pc = "inTxn" /\ StepOf(r) )
                    => LET start == txn[h].saved
                           ran == ExecAll(SqlBody(q.sql), start)
                       IN  /\ after.pc = "done"
                           /\ after.status \in {200, 400}
                           /\ after.status = 200 <=> q.name \in LedgerNames(store'[h])
                           /\ after.status = 200
                                 => /\ ran.ok
                                    /\ store'[h] = MigrateRecord(ran.st, q.name, q.sql).st
                           /\ after.status = 400
                                 => /\ after.error \in EngineMessages
                                    /\ store'[h] = start]_vars

\* A migrate call answered "Migration already applied" after the ledger was
\* emptied and the name applied again, and the table of the migration there.
C34_Witness ==
    \E r \in Slots :
        /\ reqs[r].route = "migrate"
        /\ Answered(reqs[r], 400, "Migration already applied")
        /\ applied[reqs[r].db][reqs[r].name] = 2
        /\ store[reqs[r].db][USER_TABLE].exists

----------------------------------------------------------------------------
(* The schema of a database. *)

SchemaTexts == {CREATE_T, CREATE_SPACED, CREATE_SQLITE2}

\* Tables made in the database "a" through sql, migrations of it, catalog
\* entries for it, and schema requests for "a" and "b", one invocation after
\* the other.
NextSchema ==
    \E r \in {1} :
        \/ \E text \in SchemaTexts : SqlRecv(r, "a", text)
        \/ SqlCall(r)
        \/ MigrateRecv(r, "a", "m1", CREATE_T_IF_NOT_EXISTS)
        \/ \E description \in DescriptionInputs : CreateDbRecv(r, "a", description)
        \/ CatalogExists(r)
        \/ CreateDbInsert(r)
        \/ MigrateBegin(r)
        \/ MigrateFinish(r)
        \/ \E db \in {"a", "b"} : SchemaRecv(r, db)
        \/ SchemaCall(r)
        \/ SchemaDescribe(r)

SpecSchema == Init /\ [][NextSchema]_vars

\* C35: GET /db/:name/schema answers with one entry, the table's name and
\* its columns, for every table of the handle other than the ledger,
\* whatever the table's name, and with the description of :name in the
\* catalog, null when :name is not in the catalog.
C35_SchemaOfEveryTable ==
    [][\A r \in Slots :
          LET q == reqs[r]
              s == store[q.db]
              described == {row \in CatalogRows : row["name"] = q.db}
          IN  /\ ( RouteStep(r, "schema") /\ q.pc = "call" )
                    => /\ reqs'[r].pc # "done"
                       /\ reqs'[r].rows =
                             {[table |-> tb, columns |-> s[tb].cols] :
                                 tb \in {x \in TableNames \ {MIGRATIONS_TABLE} : s[x].exists}}
              /\ ( RouteStep(r, "schema") /\ q.pc = "describe" )
                    => /\ Answered(reqs'[r], 200, "")
                       /\ reqs'[r].rows = q.rows
                       /\ reqs'[r].description =
                             IF described = {} THEN Null
                             ELSE (CHOOSE row \in described : TRUE)["description"]]_vars

----------------------------------------------------------------------------
(* Database names from the command line to the worker. *)

\* Names given to the commands: a plain one, one with a space, and "..".
CliNames == {"a", "a b", ".."}

NameCommands ==
    {Command("dbCreate", "createDb", "", ObjectBody(name, Absent, Absent)) :
        name \in CliNames}
    \cup {NameCommand("dbDelete", name, NoBody) : name \in CliNames}
    \cup {NameCommand("sql", name, ObjectBody(Absent, Absent, text)) :
             name \in CliNames, text \in {CREATE_T, SELECT_T}}
    \cup {NameCommand("migrate", name, ObjectBody("m1", Absent, CREATE_T_IF_NOT_EXISTS)) :
             name \in CliNames}

\* The client, configured for the worker, runs commands with these names.
NextCliNames ==
    \/ WriteConfigFile(ConfigFile("object", Config("u1", "k1")))
    \/ \E c \in NameCommands : ApiCall(c)
    \/ ApiReturn
    \/ \E r \in {1} :
          \/ NotFound(r)
          \/ FetchCreateDb(r)
          \/ FetchDeleteDb(r)
          \/ FetchSql(r)
          \/ FetchMigrate(r)
          \/ MigrateBegin(r)
          \/ MigrateFinish(r)
          \/ CatalogExists(r)
          \/ CreateDbInsert(r)
          \/ DeleteDbDelete(r)
          \/ SqlCall(r)

SpecCliNames == Init /\ [][NextCliNames]_vars

\* C36: while sor db delete, sor sql or sor migrate given a database name
\* awaits its response, the request it sent is on the route of the command,
\* and the name the worker takes from the path is the name given.
C36_NameResolvesVerbatim ==
    ( cli.phase = "waiting" /\ cli.args # <<>> )
        => LET q == reqs[1]
               route == CASE cli.cmd = "dbDelete" -> "deleteDb"
                          [] cli.cmd = "sql" -> "sql"
                          [] cli.cmd = "migrate" -> "migrate"
           IN  /\ inbox[1].route = route
               /\ q.pc # "idle"
                     => /\ q.route = route
                        /\ (IF route = "deleteDb" THEN q.name ELSE q.db) = cli.args[1]

----------------------------------------------------------------------------
(* Every request is answered. *)

\* Requests to the routes that read a body or a path segment, to a path no
\* route matches and to the studio route, one of them without the key.
LiveRequests ==
    {Request("createDb", "k1", "", ObjectBody("a", Absent, Absent)),
     Request("deleteDb", "k1", "a", NoBody),
     Request("sql", "k1", "a", ObjectBody(Absent, Absent, BAD_SQL)),
     Request("sql", "k1", "a", InvalidBody),
     Request("migrate", "k1", "a", ObjectBody("m1", Absent, CREATE_T)),
     Request("migrate", "k1", "a", ObjectBody("m1", Absent, BAD_SQL)),
     Request("migrate", Absent, "a", ObjectBody("m1", Absent, CREATE_T)),
     Request("unknown", "k1", "a", NoBody),
     Request("studio", Absent, "a", NoBody)}

\* The steps fetch takes for the request of slot r once it has arrived.
Process(r) ==
    \/ Studio(r)
    \/ Unauthorized(r)
    \/ NotFound(r)
    \/ FetchCreateDb(r)
    \/ FetchDeleteDb(r)
    \/ FetchSql(r)
    \/ FetchMigrate(r)
    \/ MigrateBegin(r)
    \/ MigrateFinish(r)
    \/ CatalogExists(r)
    \/ CreateDbInsert(r)
    \/ DeleteDbDelete(r)
    \/ SqlCall(r)
    \/ SchemaCall(r)
    \/ SchemaDescribe(r)

\* Two invocations at a time, the second one for POST /dbs and POST
\* /db/a/migrate only; a request arrives for a slot whose earlier request has
\* been answered.
NextLive ==
    \E r \in {1, 2} :
        \/ \E req \in LiveRequests :
              /\ ~Pending(r)
              /\ r = 2 => (req.route \in {"createDb", "migrate"} /\ req.key = "k1")
              /\ Arrive(r, req)
        \/ r = 1 /\ ~Pending(r) /\ SchemaRecv(r, "a")
        \/ Process(r)

\* Each storage call returns: the runtime runs the invocation on, and a call
\* queued at a Durable Object is delivered once the calls before it are
\* through (strong fairness: a call waits while another call's transaction
\* is open, which the model shows as two steps).
SpecLive ==
    Init /\ [][NextLive]_vars /\ \A r \in {1, 2} : SF_vars(Process(r))

\* The calls the invocation has yet to make at most, counting the response:
\* two per system migration left, and the calls of its route.
CallsLeft(q) ==
    LET left == Len(env.SYSTEM_MIGRATIONS) - q.mig IN
    CASE q.pc = "done" -> 0
      [] q.pc = "write" -> 1
      [] q.pc \in {"exists", "list", "describe"} -> 2
      [] q.pc = "inTxn" -> IF q.mig = 0 THEN 1 ELSE 3 + 2 * left
      [] q.pc = "migrate" -> IF q.mig = 0 THEN 2 ELSE 4 + 2 * left
      [] q.pc = "call" -> IF q.route = "schema"
                          THEN 5 + 2 * Len(env.SYSTEM_MIGRATIONS) ELSE 1
      [] OTHER -> 6 + 2 * Len(env.SYSTEM_MIGRATIONS)

ResponseStatuses == {200, 201, 400, 401, 404, 409, 500}

\* C37: every request that arrived is answered, with one of the statuses
\* 200, 201, 400, 401, 404, 409, 500; each step of an invocation lowers the
\* number of calls it has left, which starts from a bound set by the number
\* of system migrations, so no call is made twice for a request; and the
\* response, once made, stays as it is until the next request of the slot.
C37_EveryRequestAnswered ==
    /\ \A r \in {1, 2} :
          (Pending(r) \/ ~Free(r))
              ~> (reqs[r].pc = "done" /\ reqs[r].status \in ResponseStatuses)
    /\ [][\A r \in {1, 2} :
            /\ (StepOf(r) /\ ~Free(r)) => CallsLeft(reqs'[r]) < CallsLeft(reqs[r])
            /\ (StepOf(r) /\ reqs[r].pc = "done") => reqs'[r].pc # "done"
            /\ reqs'[r].pc = "done" => reqs'[r].status \in ResponseStatuses]_vars

\* A request answered 500 and, in flight next to it, a POST /dbs that went
\* through the bootstrap and is about to insert.
C37_Witness ==
    \E r1, r2 \in {1, 2} :
        /\ reqs[r1].pc = "done" /\ reqs[r1].status = 500
        /\ reqs[r2].route = "createDb" /\ reqs[r2].pc = "write"
====
